---- MODULE Spec2Model ----
EXTENDS Integers, Sequences, FiniteSets, TLC

(***************************************************************************)
(* Order-execution strategies of the bot: market and limit orders, TWAP    *)
(* slicing, the emulated OCO bracket with its watcher thread, the          *)
(* stop-limit watcher and the static grid.  The exchange client is the     *)
(* environment: each of its calls either returns or raises.                *)
(***************************************************************************)

\* ------------------------------------------------------------------------
\* Natural numbers as digit sequences, most significant digit first.
\* Decimal coefficients exceed the range of machine integers (12 and 28
\* significant digits), so they are kept digit by digit.
\* ------------------------------------------------------------------------

Max(a, b) == IF a >= b THEN a ELSE b

Min(a, b) == IF a <= b THEN a ELSE b

Front(s) == SubSeq(s, 1, Len(s) - 1)

Zeros(k) == [j \in 1..k |-> 0]

RECURSIVE Strip(_)
Strip(d) == IF Len(d) > 1 /\ d[1] = 0 THEN Strip(Tail(d))
            ELSE IF Len(d) = 0 THEN <<0>> ELSE d

RECURSIVE NatDigits(_)
NatDigits(n) == IF n < 10 THEN <<n>> ELSE NatDigits(n \div 10) \o <<n % 10>>

\* value of a digit string
RECURSIVE NatOf(_)
NatOf(ds) == IF ds = <<>> THEN 0 ELSE 10 * NatOf(Front(ds)) + ds[Len(ds)]

PadTo(d, n) == Zeros(n - Len(d)) \o d

RECURSIVE AddC(_, _, _)
AddC(a, b, c) ==
    IF Len(a) = 0 THEN (IF c = 0 THEN <<>> ELSE <<c>>)
    ELSE LET s == a[Len(a)] + b[Len(b)] + c
         IN  AddC(Front(a), Front(b), s \div 10) \o <<s % 10>>

AddNat(a, b) ==
    LET n == Max(Len(a), Len(b)) IN Strip(AddC(PadTo(a, n), PadTo(b, n), 0))

RECURSIVE SubB(_, _, _)
SubB(a, b, w) ==
    IF Len(a) = 0 THEN <<>>
    ELSE LET s == a[Len(a)] - b[Len(b)] - w
         IN  SubB(Front(a), Front(b), IF s < 0 THEN 1 ELSE 0)
                 \o <<IF s < 0 THEN s + 10 ELSE s>>

\* a - b for a >= b
SubNat(a, b) ==
    LET n == Max(Len(a), Len(b)) IN Strip(SubB(PadTo(a, n), PadTo(b, n), 0))

RECURSIVE CmpLex(_, _)
CmpLex(a, b) ==
    IF Len(a) = 0 THEN 0
    ELSE IF a[1] < b[1] THEN -1
    ELSE IF a[1] > b[1] THEN 1
    ELSE CmpLex(Tail(a), Tail(b))

\* -1, 0, 1 as a < b, a = b, a > b (both without leading zeros)
CmpNat(a, b) ==
    IF Len(a) < Len(b) THEN -1
    ELSE IF Len(a) > Len(b) THEN 1
    ELSE CmpLex(a, b)

RECURSIVE MulC(_, _, _)
MulC(a, n, c) ==
    IF Len(a) = 0 THEN (IF c = 0 THEN <<>> ELSE NatDigits(c))
    ELSE LET p == a[Len(a)] * n + c
         IN  MulC(Front(a), n, p \div 10) \o <<p % 10>>

\* a * n for a machine integer n >= 0
MulNat(a, n) == Strip(MulC(a, n, 0))

RECURSIVE DivC(_, _, _)
DivC(a, n, r) ==
    IF Len(a) = 0 THEN [q |-> <<>>, r |-> r]
    ELSE LET cur  == r * 10 + a[1]
             rest == DivC(Tail(a), n, cur % n)
         IN  [q |-> <<cur \div n>> \o rest.q, r |-> rest.r]

\* divmod(a, n) for a machine integer n > 0
DivModNat(a, n) ==
    LET x == DivC(a, n, 0) IN [q |-> Strip(x.q), r |-> x.r]

RECURSIVE StripTrailing(_, _)
\* drop at most k trailing zeros of a coefficient
StripTrailing(d, k) ==
    IF k > 0 /\ Len(d) > 1 /\ d[Len(d)] = 0 THEN StripTrailing(Front(d), k - 1)
    ELSE d

\* ------------------------------------------------------------------------
\* decimal.Decimal: [sign, int, exp] is (-1)^sign * int * 10^exp, computed
\* under a context precision prec with the context rounding ROUND_HALF_EVEN.
\* Decimal('Infinity') and Decimal('-Infinity') have a sign and no digits.
\* ------------------------------------------------------------------------

Dec(s, c, e) == [sign |-> s, int |-> c, exp |-> e]

Infinity(s) == [sign |-> s, special |-> "Infinity"]

\* Decimal.is_infinite()
IsInfinite(d) == "special" \in DOMAIN d

IsZero(d) == ~IsInfinite(d) /\ d.int = <<0>>

\* Decimal(n) for a Python int n >= 0
DecimalOfInt(n) == Dec(0, NatDigits(n), 0)

copy_negate(d) == [d EXCEPT !.sign = 1 - d.sign]

\* every digit of c after the first i is zero
AllZeros(c, i) == \A j \in (i + 1)..Len(c) : c[j] = 0

\* the digits of c after the first i are 5 0 0 ... 0
ExactHalf(c, i) == Len(c) > i /\ c[i + 1] = 5 /\ AllZeros(c, i + 1)

RoundDown(c, i) == IF AllZeros(c, i) THEN 0 ELSE -1

RoundHalfUp(c, i) ==
    IF c[i + 1] >= 5 THEN 1 ELSE IF AllZeros(c, i) THEN 0 ELSE -1

RoundHalfEven(c, i) ==
    IF ExactHalf(c, i) /\ (i = 0 \/ c[i] % 2 = 0) THEN -1 ELSE RoundHalfUp(c, i)

RoundFn(rounding, c, i) ==
    IF rounding = "ROUND_DOWN" THEN RoundDown(c, i) ELSE RoundHalfEven(c, i)

\* Decimal._rescale: the value with exponent exp, rounded as asked
Rescale(d, exp, rounding) ==
    IF IsZero(d) THEN Dec(d.sign, <<0>>, exp)
    ELSE IF d.exp >= exp THEN Dec(d.sign, d.int \o Zeros(d.exp - exp), exp)
    ELSE LET digits0 == Len(d.int) + d.exp - exp
             c       == IF digits0 < 0 THEN <<1>> ELSE d.int
             digits  == IF digits0 < 0 THEN 0 ELSE digits0
             changed == RoundFn(rounding, c, digits)
             coeff   == IF digits = 0 THEN <<0>> ELSE SubSeq(c, 1, digits)
         IN  Dec(d.sign, IF changed = 1 THEN AddNat(coeff, <<1>>) ELSE coeff, exp)

\* Decimal._fix: round to at most prec significant digits
Fix(d, prec) ==
    IF IsZero(d) THEN d
    ELSE LET exp_min == Len(d.int) + d.exp - prec IN
         IF d.exp < exp_min
         THEN LET changed == RoundHalfEven(d.int, prec)
                  coeff   == SubSeq(d.int, 1, prec)
                  c2      == IF changed > 0 THEN AddNat(coeff, <<1>>) ELSE coeff
                  over    == Len(c2) > prec
              IN  Dec(d.sign, IF over THEN Front(c2) ELSE c2,
                      IF over THEN exp_min + 1 ELSE exp_min)
         ELSE d

\* Decimal.__truediv__ raises DivisionByZero for a finite dividend other
\* than 0 and the divisor Decimal(0)
DivRaises(a, m) == m = 0 /\ ~IsInfinite(a)

\* Decimal.__truediv__ by Decimal(n), n a Python int; the sign of the
\* quotient is self._sign ^ other._sign.  An infinite dividend gives the
\* infinity of that sign, for n = 0 too; a finite one is divided by n # 0.
DecDiv(a, m, prec) ==
    LET n   == IF m < 0 THEN 0 - m ELSE m
        sgn == IF m < 0 THEN 1 - a.sign ELSE a.sign
    IN
    IF IsInfinite(a) THEN Infinity(sgn)
    ELSE IF IsZero(a) THEN Dec(sgn, <<0>>, a.exp)
    ELSE LET shift == Len(NatDigits(n)) - Len(a.int) + prec + 1
             exp   == a.exp - shift
             num   == IF shift >= 0 THEN a.int \o Zeros(shift)
                      ELSE Strip(SubSeq(a.int, 1, Len(a.int) + shift))
             dm    == DivModNat(num, n)
             inexact == dm.r # 0 \/ (shift < 0 /\ ~AllZeros(a.int, Len(a.int) + shift))
             last  == dm.q[Len(dm.q)]
             coeff == IF inexact
                      THEN (IF last % 5 = 0 THEN AddNat(dm.q, <<1>>) ELSE dm.q)
                      ELSE StripTrailing(dm.q, a.exp - exp)
             exp2  == IF inexact THEN exp ELSE exp + (Len(dm.q) - Len(coeff))
         IN  Fix(Dec(sgn, coeff, exp2), prec)

\* Decimal.__mul__ raises InvalidOperation for an infinity times 0
MulRaises(a, n) == IsInfinite(a) /\ n = 0

\* Decimal.__mul__ by Decimal(n), n a Python int >= 0, where it does not
\* raise
DecMul(a, n, prec) ==
    IF IsInfinite(a) THEN a
    ELSE IF IsZero(a) \/ n = 0 THEN Dec(a.sign, <<0>>, a.exp)
    ELSE Fix(Dec(a.sign, MulNat(a.int, n), a.exp), prec)

\* Decimal.__add__ raises InvalidOperation for the two infinities of
\* opposite sign
AddRaises(a, b) == IsInfinite(a) /\ IsInfinite(b) /\ a.sign # b.sign

\* Decimal.__add__, where it does not raise: an infinite operand is the sum
DecAdd(a, b, prec) ==
    LET exp == Min(a.exp, b.exp) IN
    IF IsInfinite(a) THEN a
    ELSE IF IsInfinite(b) THEN b
    ELSE IF IsZero(a) /\ IsZero(b) THEN Dec(Min(a.sign, b.sign), <<0>>, exp)
    ELSE IF IsZero(a)
         THEN Fix(Rescale(b, Max(exp, b.exp - prec - 1), "ROUND_HALF_EVEN"), prec)
    ELSE IF IsZero(b)
         THEN Fix(Rescale(a, Max(exp, a.exp - prec - 1), "ROUND_HALF_EVEN"), prec)
    ELSE LET \* _normalize: tmp has the larger exponent
             aIsTmp == ~(a.exp < b.exp)
             tmp    == IF aIsTmp THEN a ELSE b
             other  == IF aIsTmp THEN b ELSE a
             e      == tmp.exp + Min(-1, Len(tmp.int) - prec - 2)
             other2 == IF Len(other.int) + other.exp - 1 < e
                       THEN Dec(other.sign, <<1>>, e) ELSE other
             tmp2   == Dec(tmp.sign, tmp.int \o Zeros(tmp.exp - other2.exp), other2.exp)
             op1    == IF aIsTmp THEN tmp2 ELSE other2
             op2    == IF aIsTmp THEN other2 ELSE tmp2
             cmp    == CmpNat(op1.int, op2.int)
         IN  IF op1.sign # op2.sign
             THEN IF cmp = 0 THEN Dec(0, <<0>>, exp)
                  ELSE LET big   == IF cmp < 0 THEN op2 ELSE op1
                           small == IF cmp < 0 THEN op1 ELSE op2
                       IN  Fix(Dec(big.sign, SubNat(big.int, small.int), op1.exp), prec)
             ELSE Fix(Dec(op1.sign, AddNat(op1.int, op2.int), op1.exp), prec)

\* Decimal.__sub__
DecSub(a, b, prec) == DecAdd(a, copy_negate(b), prec)

\* Decimal.quantize to a finite exponent raises InvalidOperation for an
\* infinity, and when the result needs more than prec digits
QuantizeRaises(d, exp, rounding, prec) ==
    \/ IsInfinite(d)
    \/ /\ ~IsZero(d)
       /\ \/ (d.exp + Len(d.int) - 1) - exp + 1 > prec
          \/ Len(Rescale(d, exp, rounding).int) > prec

Quantize(d, exp, rounding, prec) == Fix(Rescale(d, exp, rounding), prec)

\* Decimal comparison (==, >=, <=) is by value
Canon(d) ==
    IF IsInfinite(d) THEN d
    ELSE IF IsZero(d) THEN Dec(0, <<0>>, 0)
    ELSE LET c == StripTrailing(d.int, Len(d.int))
         IN  Dec(d.sign, c, d.exp + (Len(d.int) - Len(c)))

\* where d lies among the values: -2 and 2 the infinities, -1 and 1 the
\* finite values below and above 0
Rank(d) ==
    IF IsInfinite(d) THEN (IF d.sign = 1 THEN -2 ELSE 2)
    ELSE IF IsZero(d) THEN 0 ELSE IF d.sign = 1 THEN -1 ELSE 1

\* -1, 0, 1 as a < b, a = b, a > b
DecCmp(a, b) ==
    LET e  == Min(a.exp, b.exp)
        x  == Strip(a.int \o Zeros(a.exp - e))
        y  == Strip(b.int \o Zeros(b.exp - e))
    IN  IF Rank(a) # Rank(b) THEN (IF Rank(a) < Rank(b) THEN -1 ELSE 1)
        ELSE IF Rank(a) \in {-2, 0, 2} THEN 0
        ELSE Rank(a) * CmpNat(x, y)

\* str(Decimal): plain notation, or scientific when the exponent is positive
\* or the value has more than six leading zeros
DigitChar == <<"0", "1", "2", "3", "4", "5", "6", "7", "8", "9">>

RECURSIVE DigitsStr(_)
DigitsStr(c) == IF Len(c) = 0 THEN "" ELSE DigitChar[c[1] + 1] \o DigitsStr(Tail(c))

SignedStr(n) ==
    IF n < 0 THEN "-" \o DigitsStr(NatDigits(-n)) ELSE "+" \o DigitsStr(NatDigits(n))

DecStr(d) ==
    IF IsInfinite(d) THEN (IF d.sign = 1 THEN "-Infinity" ELSE "Infinity") ELSE
    LET leftdigits == d.exp + Len(d.int)
        dotplace   == IF d.exp <= 0 /\ leftdigits > -6 THEN leftdigits ELSE 1
        intpart    == IF dotplace <= 0 THEN "0"
                      ELSE IF dotplace >= Len(d.int)
                           THEN DigitsStr(d.int \o Zeros(dotplace - Len(d.int)))
                      ELSE DigitsStr(SubSeq(d.int, 1, dotplace))
        fracpart   == IF dotplace <= 0
                      THEN "." \o DigitsStr(Zeros(-dotplace) \o d.int)
                      ELSE IF dotplace >= Len(d.int) THEN ""
                      ELSE "." \o DigitsStr(SubSeq(d.int, dotplace + 1, Len(d.int)))
        exppart    == IF leftdigits = dotplace THEN ""
                      ELSE "E" \o SignedStr(leftdigits - dotplace)
    IN  (IF d.sign = 1 THEN "-" ELSE "") \o intpart \o fracpart \o exppart

\* ------------------------------------------------------------------------
\* float(Decimal): the double nearest to the decimal, ties to the even
\* mantissa.  A double is named the way repr() spells it: by the shortest
\* decimal that converts to it, the closest one when several are as short.
\* Two decimals therefore have the same Float exactly when float() gives
\* them the same double.
\* ------------------------------------------------------------------------

\* divmod(r * 10^Len(a) + a, n) as Len(a) digits and a remainder, for a
\* machine integer n > 0.  The exact value of a double has up to 767 digits;
\* the digits are worked on by halves, so that the evaluation stays shallow.
RECURSIVE DivWide(_, _, _)
DivWide(a, n, r) ==
    IF Len(a) <= 8 THEN DivC(a, n, r)
    ELSE LET hi == DivWide(SubSeq(a, 1, Len(a) \div 2), n, r)
             lo == DivWide(SubSeq(a, Len(a) \div 2 + 1, Len(a)), n, hi.r)
         IN  [q |-> hi.q \o lo.q, r |-> lo.r]

\* floor(a / b^k), b 2 or 5, by divisors up to 2^27 or 5^11, which fit a
\* machine integer, and whether anything was cut off; DivRest goes on from
\* an earlier division x
RECURSIVE DivPow(_, _, _)
DivRest(x, b, k) ==
    IF x.inexact THEN [q |-> DivPow(x.q, b, k).q, inexact |-> TRUE]
    ELSE DivPow(x.q, b, k)

DivPow(a, b, k) ==
    IF k <= (IF b = 2 THEN 27 ELSE 11)
    THEN LET d == DivWide(a, b^k, 0) IN [q |-> Strip(d.q), inexact |-> d.r # 0]
    ELSE DivRest(DivPow(a, b, k \div 2), b, k - k \div 2)

\* a * b^k, b 2 or 5: a * 10^k / (10 / b)^k
MulPow(a, b, k) == DivPow(a \o Zeros(k), 10 \div b, k).q

\* floor(a * 2^t / 5^k), t of either sign
Scaled(a, k, t) == DivRest(DivPow(MulPow(a, 2, Max(t, 0)), 5, k), 2, Max(-t, 0))

\* the bits a has beyond 54, a mantissa of 53 bits and the bit that decides
\* the rounding: 2^54 is 18014398509481984
RECURSIVE ExtraBits(_)
ExtraBits(a) ==
    IF CmpNat(a, <<1, 8, 0, 1, 4, 3, 9, 8, 5, 0, 9, 4, 8, 1, 9, 8, 4>>) < 0 THEN 0
    ELSE 1 + ExtraBits(DivModNat(a, 2).q)

\* the double m * 2^e, for a mantissa m of at most 53 bits or, after a
\* rounding that carried, 2^53 = 9007199254740992: from 2^1024 on the double
\* is infinite
DoubleOf(m, e) ==
    IF e >= 972 \/ (e = 971 /\ m = <<9, 0, 0, 7, 1, 9, 9, 2, 5, 4, 7, 4, 0, 9, 9, 2>>)
    THEN [overflow |-> TRUE, val |-> Dec(0, <<0>>, 0)]
    ELSE [overflow |-> FALSE,
          val |-> IF e >= 0 THEN Canon(Dec(0, MulPow(m, 2, e), 0))
                  ELSE Canon(Dec(0, MulPow(m, 5, -e), e))]

\* half.q + half.r / 2 rounded to an integer, ties to the even one; inexact
\* tells that the value is a little more than that
HalfEven(half, inexact) ==
    IF half.r = 1 /\ (inexact \/ half.q[Len(half.q)] % 2 = 1)
    THEN AddNat(half.q, <<1>>) ELSE half.q

\* the double nearest to q * 2^(e - 1), q of at most 54 bits
RoundedDouble(q, e) == DoubleOf(HalfEven(DivModNat(q.q, 2), q.inexact), e)

\* the double nearest to q0 * 2^(e0 - 1), q0 of any length
TrimmedDouble(q0, e0) ==
    RoundedDouble(DivRest(q0, 2, ExtraBits(q0.q)), e0 + ExtraBits(q0.q))

\* the double nearest to a / 5^k * 2^x, taken from floor(a / 5^k * 2^t0)
ScaledDouble(a, k, x, t0) == TrimmedDouble(Scaled(a, k, t0), x - t0 + 1)

\* the double nearest to a / 5^k * 2^x, a value of at least
\* (Len(a) - 1) * 3.3219 - k * 2.3220 bits, scaled to 55 bits or more.
\* Below 2^-1022 the exponent stays -1074 and the mantissa shortens
\* (subnormal doubles, then zero).
ExactDouble(a, k, x) ==
    ScaledDouble(a, k, x,
                 Min(55 - (((Len(a) - 1) * 33219 - k * 23220) \div 10000), x + 1075))

\* the double nearest to c * 10^x, c > 0, by its exact decimal value
\* c * 5^max(x, 0) / 5^max(-x, 0) * 2^x
NearestDouble(c, x) ==
    IF x + Len(c) - 1 > 308 THEN [overflow |-> TRUE, val |-> Dec(0, <<0>>, 0)]
    ELSE IF x + Len(c) - 1 < -324 THEN [overflow |-> FALSE, val |-> Dec(0, <<0>>, 0)]
    ELSE ExactDouble(MulPow(c, 5, Max(x, 0)), Max(-x, 0), x)

\* whether float() gives the decimal d the double v
Names(d, v) == NearestDouble(d.int, d.exp) = [overflow |-> FALSE, val |-> v]

\* the first of two decimals that names v, if one does
FirstNaming(v, first, second) ==
    IF Names(first, v) THEN [ok |-> TRUE, val |-> Canon(first)]
    ELSE IF Names(second, v) THEN [ok |-> TRUE, val |-> Canon(second)]
    ELSE [ok |-> FALSE, val |-> v]

\* the two neighbours of v among the decimals of the digits of lo, the
\* closer one first
Neighbours(v, lo, up) ==
    FirstNaming(v, IF up THEN Dec(0, AddNat(lo.int, <<1>>), lo.exp) ELSE lo,
                   IF up THEN lo ELSE Dec(0, AddNat(lo.int, <<1>>), lo.exp))

\* a decimal of at most p digits whose nearest double is v, if there is one
Spelled(v, p) ==
    IF Len(v.int) <= p THEN [ok |-> TRUE, val |-> v]
    ELSE Neighbours(v, Dec(0, SubSeq(v.int, 1, p), v.exp + Len(v.int) - p),
                    RoundHalfEven(v.int, p) = 1)

\* the shortest decimal whose nearest double is v, between lo and hi digits
\* long: hi digits always do, and when p digits do, so do p + 1
RECURSIVE ShortestRepr(_, _, _)
Narrowed(v, lo, hi, s) ==
    IF lo = hi THEN s.val
    ELSE IF s.ok THEN ShortestRepr(v, lo, (lo + hi) \div 2)
    ELSE ShortestRepr(v, (lo + hi) \div 2 + 1, hi)

ShortestRepr(v, lo, hi) == Narrowed(v, lo, hi, Spelled(v, (lo + hi) \div 2))

\* the way repr() spells the double v of the given sign
DoubleNamed(sign, v) ==
    IF v.overflow THEN Infinity(sign)
    ELSE IF IsZero(v.val) THEN v.val
    ELSE [ShortestRepr(v.val, 1, 17) EXCEPT !.sign = sign]

\* float() of a decimal c without trailing zeros.  One of at most 15
\* significant digits between 1e-307 and 1e308 is the shortest decimal of
\* its double, so it names it.
FloatCanon(sign, c) ==
    IF \/ IsInfinite(c)
       \/ IsZero(c)
       \/ /\ Len(c.int) <= 15
          /\ c.exp + Len(c.int) - 1 >= -307
          /\ c.exp + Len(c.int) - 1 <= 307
    THEN c
    ELSE DoubleNamed(sign, NearestDouble(c.int, c.exp))

\* float(d) for a Decimal d; representation (trailing zeros, exponent,
\* sign of zero) is lost.  float('inf') is Infinity(0), what the infinite
\* Decimal and every Decimal too large for a double become.
Float(d) == FloatCanon(d.sign, Canon(d))

\* ------------------------------------------------------------------------
\* State
\* ------------------------------------------------------------------------

VARIABLES
    strategy,     \* the function invoked
    client,       \* "Client", or "None" when create_client found no keys,
                  \* "unset" before create_client is called
    dry_run,      \* the dry_run argument
    args,         \* the remaining arguments of the call
    argv,         \* the command line, <<>> when the function is called directly
    env,          \* the environment the script reads its keys from, <<>> likewise
    exit_status,  \* <<>> while the process runs, then <<status>>
    logged,       \* the error-level log lines of the entry point
    pc,           \* the caller: "main", "validated" in an entry point, "exit"
                  \* when it rejected its arguments; "call", a label inside
                  \* the function, then "returned" or "raised"
    ret,          \* the value returned to the caller
    exc,          \* the exception that left the function
    i,            \* loop index of run_twap, create_grid, the dry-run polls
    qty_per,      \* run_twap
    remainder,    \* run_twap
    execute_qty,  \* run_twap: the execute_qty of each iteration so far
    results,      \* run_twap
    step_size,    \* create_grid
    levels,       \* create_grid: the price of each iteration so far
    orders,       \* create_grid
    tp_order,     \* place_oco
    sl_order,     \* place_oco
    wpc,          \* the watcher thread: "none" until started, "killed" when
                  \* the process ended under it
    tp_status,    \* watcher: status last read for the take-profit leg
    sl_status,    \* watcher: status last read for the stop-loss leg
    polls,        \* iterations begun by the watcher or the stop-limit loop
    sleeps,       \* arguments of the time.sleep calls made so far
    calls,        \* the client calls made so far, each with its outcome
    book          \* the exchange: status of each order, by orderId

vars == <<strategy, client, dry_run, args, argv, env, exit_status, logged, pc, ret, exc, i, qty_per, remainder,
          execute_qty, results, step_size, levels, orders, tp_order, sl_order,
          wpc, tp_status, sl_status, polls, sleeps, calls, book>>

inputVars == <<strategy, client, dry_run, args, argv, env, exit_status, logged>>

twapVars == <<qty_per, remainder, execute_qty, results>>

gridVars == <<step_size, levels, orders>>

watcherVars == <<wpc, tp_status, sl_status>>

ocoVars == <<tp_order, sl_order, wpc, tp_status, sl_status>>

\* ------------------------------------------------------------------------
\* Bounds and inputs
\* ------------------------------------------------------------------------

MaxChunks == 4

MaxSteps == 3

MaxPolls == 3

TwapPrec == 12

DefaultPrec == 28

None == "None"

NoDec == Dec(0, <<0>>, 0)

Sides == {"BUY", "SELL"}

Symbol == "BTCUSDT"

\* a Decimal written as its digits and the number of them after the point
D(c, places) == Dec(0, c, -places)

TwapTotals ==
    { D(<<1>>, 0), D(<<1, 0>>, 0), D(<<5, 0, 0, 0>>, 0), D(<<2, 0, 0, 0, 0>>, 0),
      D(<<1>>, 3), D(<<1>>, 8), D(<<1>>, 9),
      D(<<1, 2, 3, 4, 5, 6, 7, 8, 9, 0, 1, 2, 3, 4>>, 13) }

Durations == {0, 10}

Quantities == { D(<<1>>, 3), D(<<5>>, 4) }

MarketArgs ==
    { [symbol |-> Symbol, side |-> sd, qty |-> q] : sd \in Sides, q \in Quantities }

LimitArgs ==
    { [symbol |-> Symbol, side |-> sd, qty |-> q, price |-> D(<<6, 5, 0, 0, 0>>, 0),
        time_in_force |-> "GTC"] :
        sd \in Sides, q \in Quantities }

\* validate_twap_params admits total > 0, chunks > 0, duration >= 0
TwapArgs ==
    { [symbol |-> Symbol, side |-> sd, total_qty |-> t, chunks |-> n, duration_s |-> du] :
        sd \in {"BUY"}, t \in TwapTotals, n \in 1..MaxChunks, du \in Durations }

OcoArgs ==
    { [symbol |-> Symbol, side |-> sd, qty |-> D(<<1>>, 3),
       tp_price |-> D(<<7, 0, 0, 0, 0>>, 0), sl_price |-> D(<<6, 0, 0, 0, 0>>, 0)] :
        sd \in Sides }

\* poll_interval is any int: the default 2, and 0 and -1
PollIntervals == {2, 0, -1}

StopLimitArgs ==
    { [symbol |-> Symbol, side |-> sd, qty |-> D(<<1>>, 3),
       stop_price |-> D(<<6, 4, 0, 0, 0>>, 0), limit_price |-> D(<<6, 3, 9, 0, 0>>, 0),
       poll_interval |-> p] :
        sd \in Sides, p \in PollIntervals }

\* prices the ticker may report: below, at and above the stop price
TickerPrices ==
    { D(<<6, 3, 9, 9, 9, 9, 9>>, 2), D(<<6, 4, 0, 0, 0, 0, 0>>, 2),
      D(<<6, 4, 0, 0, 0, 0, 1>>, 2) }

\* validate_price admits any low, high > 0; steps is int(args.steps).  The
\* bounds 0.015 and 0.055, 0.005 and 0.025 have more decimals than a level.
GridRanges ==
    { <<D(<<1>>, 0), D(<<2>>, 0)>>, <<D(<<1, 0, 0>>, 2), D(<<1, 0, 1>>, 2)>>,
      <<D(<<5>>, 1), D(<<7, 5>>, 2)>>, <<D(<<2>>, 0), D(<<1>>, 0)>>,
      <<D(<<1>>, 0), D(<<1, 0, 0>>, 2)>>,
      <<D(<<1, 5>>, 3), D(<<5, 5>>, 3)>>, <<D(<<5>>, 3), D(<<2, 5>>, 3)>> }

GridArgs ==
    { [symbol |-> Symbol, low |-> r[1], high |-> r[2], steps |-> n,
       qty_per_order |-> D(<<5>>, 4)] : r \in GridRanges, n \in 0..MaxSteps }
    \cup
    { [symbol |-> Symbol, low |-> D(<<6, 0, 0, 0, 0>>, 0), high |-> D(<<7, 0, 0, 0, 0>>, 0),
       steps |-> 10, qty_per_order |-> D(<<5>>, 4)] }

Strategies == {"market", "limit", "twap", "oco", "stop_limit", "grid"}

\* ------------------------------------------------------------------------
\* Command-line text and validation.py. A command-line string is the
\* sequence of its characters.
\* ------------------------------------------------------------------------

DigitChars == <<"0", "1", "2", "3", "4", "5", "6", "7", "8", "9">>

\* the letters of one byte: A to Z, then \xc0 to \xde without the sign \xd7
UpperChars == <<"A", "B", "C", "D", "E", "F", "G", "H", "I", "J", "K", "L", "M",
                "N", "O", "P", "Q", "R", "S", "T", "U", "V", "W", "X", "Y", "Z",
                "À", "Á", "Â", "Ã", "Ä", "Å", "Æ", "Ç", "È", "É", "Ê", "Ë", "Ì",
                "Í", "Î", "Ï", "Ð", "Ñ", "Ò", "Ó", "Ô", "Õ", "Ö", "Ø", "Ù", "Ú",
                "Û", "Ü", "Ý", "Þ">>

\* a to z, then \xe0 to \xfe without the sign \xf7
LowerChars == <<"a", "b", "c", "d", "e", "f", "g", "h", "i", "j", "k", "l", "m",
                "n", "o", "p", "q", "r", "s", "t", "u", "v", "w", "x", "y", "z",
                "à", "á", "â", "ã", "ä", "å", "æ", "ç", "è", "é", "ê", "ë", "ì",
                "í", "î", "ï", "ð", "ñ", "ò", "ó", "ô", "õ", "ö", "ø", "ù", "ú",
                "û", "ü", "ý", "þ">>

IsDigit(ch) == \E k \in 1..Len(DigitChars) : DigitChars[k] = ch

DigitVal(ch) == (CHOOSE k \in 1..Len(DigitChars) : DigitChars[k] = ch) - 1

AllDigits(s) == \A k \in 1..Len(s) : IsDigit(s[k])

ToDigits(s) == [k \in 1..Len(s) |-> DigitVal(s[k])]

\* str.upper() of one character.  The sharp s becomes two letters.  The
\* capitals of \xff and of the micro sign \xb5 are U+0178 and U+039C, which
\* lie beyond one byte and are spelled here by their escapes.
UpperChar(ch) ==
    IF ch = "ß" THEN "SS"
    ELSE IF ch = "ÿ" THEN "\\u0178"
    ELSE IF ch = "µ" THEN "\\u039c"
    ELSE IF \E k \in 1..Len(LowerChars) : LowerChars[k] = ch
    THEN UpperChars[CHOOSE k \in 1..Len(LowerChars) : LowerChars[k] = ch] ELSE ch

\* what the parser of Decimal reads a letter as, whatever its case

LowerChar(ch) ==
    IF \E k \in 1..Len(UpperChars) : UpperChars[k] = ch
    THEN LowerChars[CHOOSE k \in 1..Len(UpperChars) : UpperChars[k] = ch] ELSE ch

\* the string a sequence of characters spells
RECURSIVE Join(_)
Join(s) == IF s = <<>> THEN "" ELSE s[1] \o Join(Tail(s))

\* position of the first character of s that is in chars, 0 if none
IndexOf(s, chars) ==
    IF \E k \in 1..Len(s) : s[k] \in chars
    THEN CHOOSE k \in 1..Len(s) :
            s[k] \in chars /\ \A j \in 1..(k - 1) : s[j] \notin chars
    ELSE 0

HasSign(s) == Len(s) > 0 /\ s[1] \in {"+", "-"}

Unsigned(s) == IF HasSign(s) THEN Tail(s) ELSE s

LowerText(s) == [k \in 1..Len(s) |-> LowerChar(s[k])]

\* str.upper(): the string of the capitals, which may be longer than the text
UpperText(s) == Join([k \in 1..Len(s) |-> UpperChar(s[k])])

\* the parts of a number text: digits [. digits] [e [sign] digits]
Mantissa(body) ==
    LET e == IndexOf(body, {"e"}) IN IF e = 0 THEN body ELSE SubSeq(body, 1, e - 1)

Exponent(body) ==
    LET e == IndexOf(body, {"e"}) IN
    IF e = 0 THEN <<>> ELSE SubSeq(body, e + 1, Len(body))

IntPart(mant) ==
    LET p == IndexOf(mant, {"."}) IN IF p = 0 THEN mant ELSE SubSeq(mant, 1, p - 1)

FracPart(mant) ==
    LET p == IndexOf(mant, {"."}) IN
    IF p = 0 THEN <<>> ELSE SubSeq(mant, p + 1, Len(mant))

FiniteParts(intp, frac, hasexp, edigs) ==
    /\ AllDigits(intp) /\ AllDigits(frac)
    /\ Len(intp) + Len(frac) > 0
    /\ hasexp => (Len(edigs) > 0 /\ AllDigits(edigs))

FiniteText(body) ==
    FiniteParts(IntPart(Mantissa(body)), FracPart(Mantissa(body)),
                IndexOf(body, {"e"}) # 0, Unsigned(Exponent(body)))

ExpValue(expo) ==
    IF expo = <<>> THEN 0
    ELSE IF expo[1] = "-" THEN 0 - NatOf(ToDigits(Unsigned(expo)))
    ELSE NatOf(ToDigits(Unsigned(expo)))

\* _int = str(int(intpart + fracpart)), _exp = exp - len(fracpart)
FiniteParsed(sgn, intp, frac, expval) ==
    Dec(sgn, Strip(ToDigits(intp \o frac)), expval - Len(frac))

NaNText(body) ==
    \E pre \in {<<"n", "a", "n">>, <<"s", "n", "a", "n">>} :
        /\ Len(body) >= Len(pre)
        /\ SubSeq(body, 1, Len(pre)) = pre
        /\ AllDigits(SubSeq(body, Len(pre) + 1, Len(body)))

InfText(body) ==
    body \in {<<"i", "n", "f">>, <<"i", "n", "f", "i", "n", "i", "t", "y">>}

ParseSigned(sgn, body) ==
    IF FiniteText(body)
    THEN [ok |-> TRUE, special |-> None,
          val |-> FiniteParsed(sgn, IntPart(Mantissa(body)), FracPart(Mantissa(body)),
                               ExpValue(Exponent(body)))]
    ELSE IF NaNText(body)
    THEN [ok |-> TRUE, special |-> "NaN", val |-> Dec(sgn, <<0>>, 0)]
    ELSE IF InfText(body)
    THEN [ok |-> TRUE, special |-> "Infinity", val |-> Infinity(sgn)]
    ELSE [ok |-> FALSE, special |-> None, val |-> NoDec]

\* the characters str.isspace() holds for, among those of one byte: space,
\* \t, \n, \r, \f, then \x0b, \x1c, \x1d, \x1e, \x1f, \x85 and \xa0 written
\* as themselves
WhiteChars ==
    {" ", "\t", "\n", "\r", "\f", "", "", "", "", "", "", " "}

\* the text without its leading and trailing characters of white
StripText(s, white) ==
    IF \A k \in 1..Len(s) : s[k] \in white THEN <<>>
    ELSE SubSeq(s,
                CHOOSE a \in 1..Len(s) :
                    s[a] \notin white /\ \A j \in 1..(a - 1) : s[j] \in white,
                CHOOSE b \in 1..Len(s) :
                    s[b] \notin white /\ \A j \in (b + 1)..Len(s) : s[j] \in white)

\* str.replace('_', '')
WithoutUnderscores(s) == SelectSeq(s, LAMBDA ch : ch # "_")

\* the text Decimal matches after value.strip().replace('_', '')
ParseCleaned(t) ==
    ParseSigned(IF Len(t) > 0 /\ t[1] = "-" THEN 1 ELSE 0, LowerText(Unsigned(t)))

\* Decimal(text): surrounding whitespace (str.strip()) and every underscore
\* are dropped; what is left is a sign, then digits with an optional point
\* and an optional exponent, or NaN, or Infinity, in either case of letters;
\* any other text raises InvalidOperation (ok = FALSE)
ParseDecimal(raw) == ParseCleaned(WithoutUnderscores(StripText(raw, WhiteChars)))

\* digits with single underscores between them
GroupedDigits(ds) ==
    /\ Len(ds) > 0
    /\ \A k \in 1..Len(ds) : IsDigit(ds[k]) \/ ds[k] = "_"
    /\ IsDigit(ds[1]) /\ IsDigit(ds[Len(ds)])
    /\ \A k \in 1..(Len(ds) - 1) : ~(ds[k] = "_" /\ ds[k + 1] = "_")

\* the text int() reads: of the characters below \x80 it drops only the
\* whitespace of bytes, which the four separators \x1c to \x1f are not
IntText(raw) == StripText(raw, WhiteChars \ {"", "", "", ""})

\* int(text): surrounding whitespace is dropped; what is left is an optional
\* sign and decimal digits, single underscores allowed between digits, else
\* ValueError
ParseInt(raw) ==
    IF GroupedDigits(Unsigned(IntText(raw)))
    THEN [ok |-> TRUE,
          val |-> IF IntText(raw)[1] = "-"
                  THEN 0 - NatOf(ToDigits(WithoutUnderscores(Unsigned(IntText(raw)))))
                  ELSE NatOf(ToDigits(WithoutUnderscores(Unsigned(IntText(raw)))))]
    ELSE [ok |-> FALSE, val |-> 0]

\* what a validator hands back: its value, or the exception it raised
Valid(v) == [ok |-> TRUE, exc |-> None, val |-> v]

Invalid(e) == [ok |-> FALSE, exc |-> e, val |-> None]

validate_symbol(symbol) ==
    IF Len(symbol) < 6 THEN Invalid("ValueError")
    ELSE Valid(UpperText(symbol))

SideOf(s) == IF s \notin {"BUY", "SELL"} THEN Invalid("ValueError") ELSE Valid(s)

validate_side(side) == SideOf(UpperText(side))

\* `if d <= 0: raise ValueError` after `d = Decimal(text)`, whose
\* InvalidOperation is turned into ValueError; d <= 0 itself raises
\* InvalidOperation for a NaN and is false for Infinity, which is handed
\* back like any positive number
RaiseUnlessPositive(d) ==
    IF ~d.ok THEN Invalid("ValueError")
    ELSE IF d.special = "NaN" THEN Invalid("InvalidOperation")
    ELSE IF IsZero(d.val) \/ d.val.sign = 1 THEN Invalid("ValueError")
    ELSE Valid(d.val)

\* variant: the test is d < 0, so a zero quantity passes
validate_quantity_AdmitsZero(qty) ==
    IF ParseDecimal(qty).ok /\ ParseDecimal(qty).special = None
       /\ IsZero(ParseDecimal(qty).val)
    THEN Valid(ParseDecimal(qty).val)
    ELSE RaiseUnlessPositive(ParseDecimal(qty))

validate_quantity(qty) == RaiseUnlessPositive(ParseDecimal(qty))

validate_price(price) == RaiseUnlessPositive(ParseDecimal(price))

\* the checks of validate_twap_params on its three converted arguments
TwapParams(total, chunks_i, duration_i) ==
    IF ~total.ok THEN total
    ELSE IF ~chunks_i.ok \/ ~duration_i.ok THEN Invalid("ValueError")
    ELSE IF chunks_i.val <= 0 THEN Invalid("ValueError")
    ELSE IF duration_i.val < 0 THEN Invalid("ValueError")
    ELSE Valid(<<total.val, chunks_i.val, duration_i.val>>)

validate_twap_params(total_qty, chunks, duration_s) ==
    TwapParams(validate_quantity(total_qty), ParseInt(chunks), ParseInt(duration_s))

\* ------------------------------------------------------------------------
\* Command lines
\* ------------------------------------------------------------------------

Unset == "unset"

\* texts of positive decimals: 0.001, 1e-3, 0.0_01, and 0.001 after a space
\* and a vertical tab (0x0b), before a no-break space (0xa0), a file
\* separator (0x1c) and a tab
RawGoodNumbers ==
    { <<"0", ".", "0", "0", "1">>,
      <<"1", "e", "-", "3">>,
      <<" ", "", "0", ".", "0", "0", "1", " ", "", "\t">>,
      <<"0", ".", "0", "_", "0", "1">> }

\* 1.00000000000000000001: more digits than a double holds
RawLongNumbers ==
    { <<"1", ".", "0", "0", "0", "0", "0", "0", "0", "0", "0", "0",
        "0", "0", "0", "0", "0", "0", "0", "0", "0", "1">> }

\* texts of zero: 0, 0.00, -0
RawZeroNumbers ==
    { <<"0">>,
      <<"0", ".", "0", "0">>,
      <<"-", "0">> }

\* texts of negative decimals: -1, -0.5
RawNegativeNumbers ==
    { <<"-", "1">>,
      <<"-", "0", ".", "5">> }

\* texts that are no number: abc, the empty text, NaN, 1.2.3, 1e, a digit,
\* a space and a digit, a lone underscore, Infinity, inf
RawNonNumbers ==
    { <<"a", "b", "c">>,
      <<>>,
      <<"N", "a", "N">>,
      <<"1", ".", "2", ".", "3">>,
      <<"1", "e">>,
      <<"1", " ", "0">>,
      <<"_">>,
      <<"I", "n", "f", "i", "n", "i", "t", "y">>,
      <<"i", "n", "f">> }

RawBadNumbers == RawZeroNumbers \cup RawNegativeNumbers \cup RawNonNumbers

RawNumbers == RawGoodNumbers \cup RawBadNumbers

\* btcusdt, BTC, and six letters of Latin-1 that upper-case to seven
RawSymbols ==
    { <<"b", "t", "c", "u", "s", "d", "t">>,
      <<"B", "T", "C">>,
      <<"é", "t", "c", "u", "s", "ß">> }

\* buy, Sell, hold
RawSides ==
    { <<"b", "u", "y">>,
      <<"S", "e", "l", "l">>,
      <<"h", "o", "l", "d">> }

\* chunk and step counts: 2, 0, -1, 1.5, x, 0_2, _2, then 2 after a space and
\* a next-line character (0x85), and 2 after a file separator (0x1c), which
\* int() does not take for white space
RawCounts ==
    { <<"2">>,
      <<"0">>,
      <<"-", "1">>,
      <<"1", ".", "5">>,
      <<"x">>,
      <<" ", "", "2">>,
      <<"", "2">>,
      <<"0", "_", "2">>,
      <<"_", "2">> }

\* 0, -1
RawDurations ==
    { <<"0">>,
      <<"-", "1">> }

\* the command lines that differ from base in the one argument f, taken from S
Vary(base, f, S) == { [base EXCEPT ![f] = v] : v \in S }

VaryAll(base, fs, S) == UNION { Vary(base, f, S) : f \in fs }

MarketBase ==
    [ symbol |-> <<"b", "t", "c", "u", "s", "d", "t">>,
      side |-> <<"b", "u", "y">>,
      qty |-> <<"0", ".", "0", "0", "1">> ]

MarketArgv ==
    Vary(MarketBase, "symbol", RawSymbols)
    \cup Vary(MarketBase, "side", RawSides)
    \cup VaryAll(MarketBase, {"qty"}, RawNumbers \cup RawLongNumbers)

LimitBase ==
    [ symbol |-> <<"b", "t", "c", "u", "s", "d", "t">>,
      side |-> <<"b", "u", "y">>,
      qty |-> <<"0", ".", "0", "0", "1">>,
      price |-> <<"6", "5", "0", "0", "0">> ]

LimitArgv ==
    Vary(LimitBase, "symbol", RawSymbols)
    \cup Vary(LimitBase, "side", RawSides)
    \cup VaryAll(LimitBase, {"qty", "price"}, RawNumbers)

TwapBase ==
    [ symbol |-> <<"b", "t", "c", "u", "s", "d", "t">>,
      side |-> <<"b", "u", "y">>,
      total |-> <<"0", ".", "0", "0", "1">>,
      chunks |-> <<"2">>,
      duration |-> <<"0">> ]

TwapArgv ==
    Vary(TwapBase, "symbol", RawSymbols)
    \cup Vary(TwapBase, "side", RawSides)
    \cup VaryAll(TwapBase, {"total"}, RawNumbers)
    \cup Vary(TwapBase, "chunks", RawCounts)
    \cup Vary(TwapBase, "duration", RawDurations)

OcoBase ==
    [ symbol |-> <<"b", "t", "c", "u", "s", "d", "t">>,
      side |-> <<"b", "u", "y">>,
      qty |-> <<"0", ".", "0", "0", "1">>,
      tp |-> <<"7", "0", "0", "0", "0">>,
      sl |-> <<"6", "0", "0", "0", "0">> ]

OcoArgv ==
    Vary(OcoBase, "symbol", RawSymbols)
    \cup Vary(OcoBase, "side", RawSides)
    \cup VaryAll(OcoBase, {"qty", "tp", "sl"}, RawNumbers)

StopLimitBase ==
    [ symbol |-> <<"b", "t", "c", "u", "s", "d", "t">>,
      side |-> <<"b", "u", "y">>,
      qty |-> <<"0", ".", "0", "0", "1">>,
      stop |-> <<"6", "4", "0", "0", "0">>,
      limit |-> <<"6", "3", "9", "0", "0">>,
      poll_interval |-> 2 ]

StopLimitArgv ==
    Vary(StopLimitBase, "symbol", RawSymbols)
    \cup Vary(StopLimitBase, "side", RawSides)
    \cup VaryAll(StopLimitBase, {"qty", "stop", "limit"}, RawNumbers)
    \cup Vary(StopLimitBase, "poll_interval", PollIntervals)

GridBase ==
    [ symbol |-> <<"b", "t", "c", "u", "s", "d", "t">>,
      low |-> <<"1">>,
      high |-> <<"2">>,
      steps |-> <<"2">>,
      qty |-> <<"0", ".", "0", "0", "0", "5">> ]

GridArgv ==
    Vary(GridBase, "symbol", RawSymbols)
    \cup VaryAll(GridBase, {"low", "high", "qty"}, RawNumbers)
    \cup Vary(GridBase, "steps", RawCounts)

\* BINANCE_API_KEY and BINANCE_API_SECRET as os.getenv reads them
Environments ==
    { [key |-> "k", secret |-> "s"], [key |-> None, secret |-> "s"],
      [key |-> "k", secret |-> ""] }

Init ==
    /\ strategy \in Strategies
    /\ dry_run \in BOOLEAN
    /\ \/ \* the function is called by a program
          /\ pc = "call"
          /\ client \in {"Client", None}
          /\ args \in CASE strategy = "market" -> MarketArgs
                    [] strategy = "limit"  -> LimitArgs
                    [] strategy = "twap"   -> TwapArgs
                    [] strategy = "oco"    -> OcoArgs
                    [] strategy = "stop_limit" -> StopLimitArgs
                    [] strategy = "grid"   -> GridArgs
          /\ argv = <<>>
          /\ env = <<>>
       \/ \* the script is run from the command line
          /\ pc = "main"
          /\ client = Unset
          /\ args = None
          /\ argv \in CASE strategy = "market" -> MarketArgv
                    [] strategy = "limit"  -> LimitArgv
                    [] strategy = "twap"   -> TwapArgv
                    [] strategy = "oco"    -> OcoArgv
                    [] strategy = "stop_limit" -> StopLimitArgv
                    [] strategy = "grid"   -> GridArgv
          /\ env \in Environments
    /\ exit_status = <<>>
    /\ logged = <<>>
    /\ ret = None
    /\ exc = None
    /\ i = 0
    /\ qty_per = NoDec
    /\ remainder = NoDec
    /\ execute_qty = <<>>
    /\ results = <<>>
    /\ step_size = NoDec
    /\ levels = <<>>
    /\ orders = <<>>
    /\ tp_order = None
    /\ sl_order = None
    /\ wpc = "none"
    /\ tp_status = None
    /\ sl_status = None
    /\ polls = 0
    /\ sleeps = <<>>
    /\ calls = <<>>
    /\ book = <<>>

\* ------------------------------------------------------------------------
\* The exchange client
\* ------------------------------------------------------------------------

\* variant: a missing client does not force simulation
Simulated_FlagOnly == dry_run

Simulated == dry_run \/ client = None

\* the keyword arguments of one futures_create_order call
OrderReq(side, type, timeInForce, quantity, price, stopPrice) ==
    [symbol |-> args.symbol, side |-> side, type |-> type,
     timeInForce |-> timeInForce, quantity |-> quantity,
     price |-> price, stopPrice |-> stopPrice]

\* the order record the exchange answers a successful placement with
Response(req) ==
    [orderId |-> Len(book) + 1, status |-> "NEW", symbol |-> req.symbol,
     side |-> req.side, type |-> req.type, origQty |-> req.quantity,
     price |-> req.price, stopPrice |-> req.stopPrice]

\* client.futures_create_order(...): ok = it returned, ~ok = it raised
CreateOrder(req, ok) ==
    /\ calls' = Append(calls, [op |-> "futures_create_order", req |-> req, ok |-> ok])
    /\ book' = IF ok THEN Append(book, "NEW") ELSE book

\* ------------------------------------------------------------------------
\* market_orders.place_market_order, limit_orders.place_limit_order
\* ------------------------------------------------------------------------

MarketReq == OrderReq(args.side, "MARKET", None, Float(args.qty), None, None)

place_market_order ==
    /\ strategy = "market" /\ pc = "call"
    /\ \/ /\ Simulated
          /\ ret' = [status |-> "DRY_RUN", symbol |-> args.symbol, side |-> args.side,
                     qty |-> DecStr(args.qty)]
          /\ pc' = "returned"
          /\ UNCHANGED <<exc, calls, book>>
       \/ /\ ~Simulated
          /\ \E ok \in BOOLEAN :
                /\ CreateOrder(MarketReq, ok)
                /\ pc' = IF ok THEN "returned" ELSE "raised"
                /\ ret' = IF ok THEN Response(MarketReq) ELSE ret
                /\ exc' = IF ok THEN exc ELSE "Exception"
    /\ UNCHANGED <<inputVars, i, twapVars, gridVars, ocoVars, polls, sleeps>>

LimitReq == OrderReq(args.side, "LIMIT", args.time_in_force, Float(args.qty), DecStr(args.price), None)

place_limit_order ==
    /\ strategy = "limit" /\ pc = "call"
    /\ \/ /\ Simulated
          /\ ret' = [status |-> "DRY_RUN", symbol |-> args.symbol, side |-> args.side,
                     qty |-> DecStr(args.qty), price |-> DecStr(args.price)]
          /\ pc' = "returned"
          /\ UNCHANGED <<exc, calls, book>>
       \/ /\ ~Simulated
          /\ \E ok \in BOOLEAN :
                /\ CreateOrder(LimitReq, ok)
                /\ pc' = IF ok THEN "returned" ELSE "raised"
                /\ ret' = IF ok THEN Response(LimitReq) ELSE ret
                /\ exc' = IF ok THEN exc ELSE "Exception"
    /\ UNCHANGED <<inputVars, i, twapVars, gridVars, ocoVars, polls, sleeps>>

\* ------------------------------------------------------------------------
\* advanced/twap.run_twap
\* ------------------------------------------------------------------------

\* (total_qty / Decimal(chunks)) before it is quantized
TwapQuotient == DecDiv(args.total_qty, args.chunks, TwapPrec)

\* .quantize(Decimal("1e-8"), rounding=ROUND_DOWN)
TwapQtyPer == Quantize(TwapQuotient, -8, "ROUND_DOWN", TwapPrec)

\* total_qty - (qty_per * Decimal(chunks))
TwapRemainder(q) ==
    DecSub(args.total_qty, DecMul(q, args.chunks, TwapPrec), TwapPrec)

\* duration_s / max(1, chunks), kept as the fraction it is
TwapInterval == [num |-> args.duration_s, den |-> Max(1, args.chunks)]

\* qty_per + (remainder if i == (chunks - 1) else Decimal("0"))
TwapExecuteQty ==
    DecAdd(qty_per, IF i = args.chunks - 1 THEN remainder ELSE NoDec, TwapPrec)

\* entry of run_twap up to the loop; quantize raises InvalidOperation
\* when the per-chunk quantity does not fit the context precision
TwapStart ==
    /\ strategy = "twap" /\ pc = "call"
    /\ IF QuantizeRaises(TwapQuotient, -8, "ROUND_DOWN", TwapPrec)
       THEN /\ pc' = "raised"
            /\ exc' = "InvalidOperation"
            /\ UNCHANGED <<qty_per, remainder>>
       ELSE /\ qty_per' = TwapQtyPer
            /\ remainder' = TwapRemainder(TwapQtyPer)
            /\ pc' = "loop"
            /\ exc' = exc
    /\ UNCHANGED <<inputVars, ret, i, execute_qty, results, gridVars, ocoVars,
                   polls, sleeps, calls, book>>

TwapReq == OrderReq(args.side, "MARKET", None, Float(TwapExecuteQty), None, None)

\* variant: the first failed chunk ends the schedule
TwapChunk_AbortOnError ==
    /\ strategy = "twap" /\ pc = "loop" /\ i < args.chunks
    /\ execute_qty' = Append(execute_qty, TwapExecuteQty)
    /\ \/ /\ Simulated
          /\ results' = Append(results, [chunk |-> i + 1, status |-> "DRY_RUN",
                                         qty |-> DecStr(TwapExecuteQty)])
          /\ sleeps' = IF i < args.chunks - 1 THEN Append(sleeps, TwapInterval)
                       ELSE sleeps
          /\ IF i + 1 < args.chunks
             THEN UNCHANGED <<pc, ret>>
             ELSE pc' = "returned" /\ ret' = results'
          /\ UNCHANGED <<calls, book>>
       \/ /\ ~Simulated
          /\ \E ok \in BOOLEAN :
                /\ CreateOrder(TwapReq, ok)
                /\ results' = Append(results,
                                     IF ok THEN Response(TwapReq)
                                     ELSE [chunk |-> i + 1, status |-> "ERROR"])
                /\ sleeps' = IF ok /\ i < args.chunks - 1
                             THEN Append(sleeps, TwapInterval) ELSE sleeps
                /\ IF ok /\ i + 1 < args.chunks
                   THEN UNCHANGED <<pc, ret>>
                   ELSE pc' = "returned" /\ ret' = results'
    /\ i' = i + 1
    /\ UNCHANGED <<inputVars, exc, qty_per, remainder, gridVars, ocoVars, polls>>

\* variant: the loop sleeps after every chunk, the last one too
TwapChunk_SleepsAfterLast ==
    /\ strategy = "twap" /\ pc = "loop" /\ i < args.chunks
    /\ execute_qty' = Append(execute_qty, TwapExecuteQty)
    /\ \/ /\ Simulated
          /\ results' = Append(results, [chunk |-> i + 1, status |-> "DRY_RUN",
                                         qty |-> DecStr(TwapExecuteQty)])
          /\ UNCHANGED <<calls, book>>
       \/ /\ ~Simulated
          /\ \E ok \in BOOLEAN :
                /\ CreateOrder(TwapReq, ok)
                /\ results' = Append(results,
                                     IF ok THEN Response(TwapReq)
                                     ELSE [chunk |-> i + 1, status |-> "ERROR"])
    /\ sleeps' = Append(sleeps, TwapInterval)
    /\ i' = i + 1
    /\ IF i + 1 < args.chunks
       THEN UNCHANGED <<pc, ret>>
       ELSE pc' = "returned" /\ ret' = results'
    /\ UNCHANGED <<inputVars, exc, qty_per, remainder, gridVars, ocoVars, polls>>

\* one iteration of the loop, and the return after the last one
TwapChunk ==
    /\ strategy = "twap" /\ pc = "loop" /\ i < args.chunks
    /\ execute_qty' = Append(execute_qty, TwapExecuteQty)
    /\ \/ /\ Simulated
          /\ results' = Append(results, [chunk |-> i + 1, status |-> "DRY_RUN",
                                         qty |-> DecStr(TwapExecuteQty)])
          /\ UNCHANGED <<calls, book>>
       \/ /\ ~Simulated
          /\ \E ok \in BOOLEAN :
                /\ CreateOrder(TwapReq, ok)
                /\ results' = Append(results,
                                     IF ok THEN Response(TwapReq)
                                     ELSE [chunk |-> i + 1, status |-> "ERROR"])
    /\ sleeps' = IF i < args.chunks - 1 THEN Append(sleeps, TwapInterval) ELSE sleeps
    /\ i' = i + 1
    /\ IF i + 1 < args.chunks
       THEN UNCHANGED <<pc, ret>>
       ELSE pc' = "returned" /\ ret' = results'
    /\ UNCHANGED <<inputVars, exc, qty_per, remainder, gridVars, ocoVars, polls>>

\* ------------------------------------------------------------------------
\* advanced/oco.place_oco and its watcher thread
\* ------------------------------------------------------------------------

sl_side == IF args.side = "BUY" THEN "SELL" ELSE "BUY"

TpReq == OrderReq(args.side, "LIMIT", "GTC", Float(args.qty), DecStr(args.tp_price), None)

SlReq == OrderReq(sl_side, "STOP_MARKET", None, Float(args.qty), None,
                  DecStr(args.sl_price))

OcoDryRun ==
    /\ strategy = "oco" /\ pc = "call" /\ Simulated
    /\ ret' = [status |-> "DRY_RUN"]
    /\ pc' = "returned"
    /\ UNCHANGED <<inputVars, exc, i, twapVars, gridVars, ocoVars, polls, sleeps,
                   calls, book>>

\* variant: a failed take-profit placement is logged and not re-raised
OcoPlaceTp_Swallow ==
    /\ strategy = "oco" /\ pc = "call" /\ ~Simulated
    /\ \E ok \in BOOLEAN :
          /\ CreateOrder(TpReq, ok)
          /\ tp_order' = IF ok THEN Response(TpReq) ELSE tp_order
          /\ pc' = IF ok THEN "place_sl" ELSE "returned"
          /\ ret' = IF ok THEN ret ELSE [status |-> "ERROR"]
    /\ UNCHANGED <<inputVars, exc, i, twapVars, gridVars, sl_order, watcherVars,
                   polls, sleeps>>

\* the take-profit placement; an exception is logged and re-raised
OcoPlaceTp ==
    /\ strategy = "oco" /\ pc = "call" /\ ~Simulated
    /\ \E ok \in BOOLEAN :
          /\ CreateOrder(TpReq, ok)
          /\ tp_order' = IF ok THEN Response(TpReq) ELSE tp_order
          /\ pc' = IF ok THEN "place_sl" ELSE "raised"
          /\ exc' = IF ok THEN exc ELSE "Exception"
    /\ UNCHANGED <<inputVars, ret, i, twapVars, gridVars, sl_order, watcherVars,
                   polls, sleeps>>

\* variant: a failed stop-loss placement cancels the take-profit order
OcoPlaceSl_RollsBack ==
    /\ strategy = "oco" /\ pc = "place_sl"
    /\ \/ /\ CreateOrder(SlReq, TRUE)
          /\ sl_order' = Response(SlReq)
          /\ pc' = "start_watcher"
          /\ exc' = exc
       \/ /\ calls' = calls \o <<[op |-> "futures_create_order", req |-> SlReq,
                                   ok |-> FALSE],
                                  [op |-> "futures_cancel_order",
                                   orderId |-> tp_order.orderId, ok |-> TRUE]>>
          /\ book' = [book EXCEPT ![tp_order.orderId] = "CANCELED"]
          /\ pc' = "raised"
          /\ exc' = "Exception"
          /\ UNCHANGED sl_order
    /\ UNCHANGED <<inputVars, ret, i, twapVars, gridVars, tp_order, watcherVars,
                   polls, sleeps>>

\* the stop-loss placement; an exception is logged and re-raised
OcoPlaceSl ==
    /\ strategy = "oco" /\ pc = "place_sl"
    /\ \E ok \in BOOLEAN :
          /\ CreateOrder(SlReq, ok)
          /\ sl_order' = IF ok THEN Response(SlReq) ELSE sl_order
          /\ pc' = IF ok THEN "start_watcher" ELSE "raised"
          /\ exc' = IF ok THEN exc ELSE "Exception"
    /\ UNCHANGED <<inputVars, ret, i, twapVars, gridVars, tp_order, watcherVars,
                   polls, sleeps>>

\* Thread(target=watcher, daemon=True).start(): from here on the watcher
\* runs next to the caller
OcoStartWatcher ==
    /\ strategy = "oco" /\ pc = "start_watcher"
    /\ wpc' = "get_tp"
    /\ pc' = "return"
    /\ UNCHANGED <<inputVars, ret, exc, i, twapVars, gridVars, tp_order, sl_order,
                   tp_status, sl_status, polls, sleeps, calls, book>>

\* return {"tp": tp_order, "sl": sl_order}
OcoReturn ==
    /\ strategy = "oco" /\ pc = "return"
    /\ ret' = [tp |-> tp_order, sl |-> sl_order]
    /\ pc' = "returned"
    /\ UNCHANGED <<inputVars, exc, i, twapVars, gridVars, ocoVars, polls, sleeps,
                   calls, book>>

\* client.futures_get_order(...): the order's current status, or an exception
GetOrder(orderId, ok) ==
    calls' = Append(calls, [op |-> "futures_get_order", orderId |-> orderId,
                            status |-> IF ok THEN book[orderId] ELSE None,
                            ok |-> ok])

\* the exchange cancels an order only while it is open
CancelOrder(orderId, ok) ==
    /\ ok => book[orderId] = "NEW"
    /\ calls' = Append(calls, [op |-> "futures_cancel_order", orderId |-> orderId,
                               ok |-> ok])
    /\ book' = IF ok THEN [book EXCEPT ![orderId] = "CANCELED"] ELSE book

\* variant: a failed take-profit query is skipped and the poll goes on
WatcherGetTp_ContinuesOnError ==
    /\ wpc = "get_tp" /\ polls < MaxPolls
    /\ polls' = polls + 1
    /\ \E ok \in BOOLEAN :
          /\ GetOrder(tp_order.orderId, ok)
          /\ tp_status' = IF ok THEN book[tp_order.orderId] ELSE tp_status
          /\ wpc' = "get_sl"
    /\ UNCHANGED <<inputVars, pc, ret, exc, i, twapVars, gridVars, tp_order, sl_order,
                   sl_status, sleeps, book>>

\* tp_status = client.futures_get_order(orderId=tp_order["orderId"])
WatcherGetTp ==
    /\ wpc = "get_tp" /\ polls < MaxPolls
    /\ polls' = polls + 1
    /\ \E ok \in BOOLEAN :
          /\ GetOrder(tp_order.orderId, ok)
          /\ tp_status' = IF ok THEN book[tp_order.orderId] ELSE tp_status
          /\ wpc' = IF ok THEN "get_sl" ELSE "sleep"
    /\ UNCHANGED <<inputVars, pc, ret, exc, i, twapVars, gridVars, tp_order, sl_order,
                   sl_status, sleeps, book>>

\* variant: a failed stop-loss query ends the thread
WatcherGetSl_DiesOnError ==
    /\ wpc = "get_sl"
    /\ \E ok \in BOOLEAN :
          /\ GetOrder(sl_order.orderId, ok)
          /\ sl_status' = IF ok THEN book[sl_order.orderId] ELSE sl_status
          /\ wpc' = IF ok THEN "decide" ELSE "dead"
    /\ UNCHANGED <<inputVars, pc, ret, exc, i, twapVars, gridVars, tp_order, sl_order,
                   tp_status, polls, sleeps, book>>

\* sl_status = client.futures_get_order(orderId=sl_order["orderId"])
WatcherGetSl ==
    /\ wpc = "get_sl"
    /\ \E ok \in BOOLEAN :
          /\ GetOrder(sl_order.orderId, ok)
          /\ sl_status' = IF ok THEN book[sl_order.orderId] ELSE sl_status
          /\ wpc' = IF ok THEN "decide" ELSE "sleep"
    /\ UNCHANGED <<inputVars, pc, ret, exc, i, twapVars, gridVars, tp_order, sl_order,
                   tp_status, polls, sleeps, book>>

\* variant: the FILLED leg itself is cancelled instead of its sibling
WatcherDecide_CancelsFilledLeg ==
    /\ wpc = "decide"
    /\ IF tp_status = "FILLED"
       THEN \E ok \in BOOLEAN :
               /\ CancelOrder(tp_order.orderId, ok)
               /\ wpc' = IF ok THEN "closed_tp" ELSE "sleep"
       ELSE IF sl_status = "FILLED"
       THEN \E ok \in BOOLEAN :
               /\ CancelOrder(sl_order.orderId, ok)
               /\ wpc' = IF ok THEN "closed_sl" ELSE "sleep"
       ELSE /\ wpc' = "sleep"
            /\ UNCHANGED <<calls, book>>
    /\ UNCHANGED <<inputVars, pc, ret, exc, i, twapVars, gridVars, tp_order, sl_order,
                   tp_status, sl_status, polls, sleeps>>

\* variant: the stop-loss status is tested before the take-profit status
WatcherDecide_StopLossFirst ==
    /\ wpc = "decide"
    /\ IF sl_status = "FILLED"
       THEN \E ok \in BOOLEAN :
               /\ CancelOrder(tp_order.orderId, ok)
               /\ wpc' = IF ok THEN "closed_sl" ELSE "sleep"
       ELSE IF tp_status = "FILLED"
       THEN \E ok \in BOOLEAN :
               /\ CancelOrder(sl_order.orderId, ok)
               /\ wpc' = IF ok THEN "closed_tp" ELSE "sleep"
       ELSE /\ wpc' = "sleep"
            /\ UNCHANGED <<calls, book>>
    /\ UNCHANGED <<inputVars, pc, ret, exc, i, twapVars, gridVars, tp_order, sl_order,
                   tp_status, sl_status, polls, sleeps>>

\* the two if-statements: cancel the sibling of a FILLED leg and break
WatcherDecide ==
    /\ wpc = "decide"
    /\ IF tp_status = "FILLED"
       THEN \E ok \in BOOLEAN :
               /\ CancelOrder(sl_order.orderId, ok)
               /\ wpc' = IF ok THEN "closed_tp" ELSE "sleep"
       ELSE IF sl_status = "FILLED"
       THEN \E ok \in BOOLEAN :
               /\ CancelOrder(tp_order.orderId, ok)
               /\ wpc' = IF ok THEN "closed_sl" ELSE "sleep"
       ELSE /\ wpc' = "sleep"
            /\ UNCHANGED <<calls, book>>
    /\ UNCHANGED <<inputVars, pc, ret, exc, i, twapVars, gridVars, tp_order, sl_order,
                   tp_status, sl_status, polls, sleeps>>

\* time.sleep(2), then the next iteration
WatcherSleep ==
    /\ wpc = "sleep"
    /\ sleeps' = Append(sleeps, 2)
    /\ wpc' = "get_tp"
    /\ UNCHANGED <<inputVars, pc, ret, exc, i, twapVars, gridVars, tp_order, sl_order,
                   tp_status, sl_status, polls, calls, book>>

\* the exchange fills an open leg of the bracket at a time of its choosing
ExchangeFill ==
    /\ strategy = "oco"
    /\ \E id \in 1..Len(book) :
          /\ book[id] = "NEW"
          /\ book' = [book EXCEPT ![id] = "FILLED"]
    /\ UNCHANGED <<inputVars, pc, ret, exc, i, twapVars, gridVars, ocoVars, polls,
                   sleeps, calls>>

\* OPEN -> CLOSED(tp) | CLOSED(sl)
WatcherStateOf(w) ==
    CASE w = "none"      -> "none"
      [] w \in {"get_tp", "get_sl", "decide", "sleep"} -> "OPEN"
      [] w = "closed_tp" -> "CLOSED(tp)"
      [] w = "closed_sl" -> "CLOSED(sl)"
      [] OTHER           -> "TERMINATED"

WatcherState == WatcherStateOf(wpc)

\* ------------------------------------------------------------------------
\* advanced/stop_limit.stop_limit_watch_and_place
\* ------------------------------------------------------------------------

\* time.sleep(secs) raises ValueError for a negative length
SleepRaises(secs) == secs < 0

\* for i in range(2): time.sleep(poll_interval), then the DRY_RUN record; a
\* negative poll_interval ends the call at the first wait
StopLimitDryRun ==
    /\ strategy = "stop_limit" /\ pc = "call" /\ Simulated
    /\ IF SleepRaises(args.poll_interval)
       THEN /\ sleeps' = Append(sleeps, args.poll_interval)
            /\ pc' = "raised"
            /\ exc' = "ValueError"
            /\ UNCHANGED <<i, ret>>
       ELSE /\ sleeps' = sleeps \o <<args.poll_interval, args.poll_interval>>
            /\ i' = 2
            /\ ret' = [status |-> "DRY_RUN", symbol |-> args.symbol, side |-> args.side,
                       qty |-> DecStr(args.qty), stop |-> DecStr(args.stop_price),
                       limit |-> DecStr(args.limit_price)]
            /\ pc' = "returned"
            /\ exc' = exc
    /\ UNCHANGED <<inputVars, twapVars, gridVars, ocoVars, polls, calls, book>>

\* variant: the two comparisons are swapped between the sides
Triggered_Swapped(price) ==
    \/ args.side = "BUY" /\ DecCmp(price, args.stop_price) <= 0
    \/ args.side = "SELL" /\ DecCmp(price, args.stop_price) >= 0

\* (side == "BUY" and price >= stop_price) or (side == "SELL" and price <= stop_price)
Triggered(price) ==
    \/ args.side = "BUY" /\ DecCmp(price, args.stop_price) >= 0
    \/ args.side = "SELL" /\ DecCmp(price, args.stop_price) <= 0

StopLimitReq ==
    OrderReq(args.side, "LIMIT", "GTC", Float(args.qty), DecStr(args.limit_price), None)

Ticker(price, ok) == [op |-> "futures_symbol_ticker", price |-> price, ok |-> ok]

\* time.sleep(poll_interval) at the end of an iteration, outside the try: the
\* next iteration follows, or the ValueError leaves the function
StopLimitSleep ==
    /\ sleeps' = Append(sleeps, args.poll_interval)
    /\ IF SleepRaises(args.poll_interval)
       THEN pc' = "raised" /\ exc' = "ValueError"
       ELSE pc' = "poll" /\ exc' = exc

\* return order
StopLimitReturn ==
    /\ pc' = "returned"
    /\ UNCHANGED <<sleeps, exc>>

\* variant: the call hands control back after a poll that does not trigger
StopLimitPoll_ReturnsUntriggered ==
    /\ strategy = "stop_limit" /\ pc \in {"call", "poll"} /\ ~Simulated
    /\ polls < MaxPolls
    /\ polls' = polls + 1
    /\ \/ /\ calls' = Append(calls, Ticker(None, FALSE))
          /\ StopLimitSleep
          /\ UNCHANGED <<ret, book>>
       \/ \E price \in TickerPrices :
             /\ ~Triggered(price)
             /\ calls' = Append(calls, Ticker(price, TRUE))
             /\ StopLimitReturn
             /\ UNCHANGED <<ret, book>>
       \/ \E price \in TickerPrices, ok \in BOOLEAN :
             /\ Triggered(price)
             /\ calls' = calls \o <<Ticker(price, TRUE),
                                    [op |-> "futures_create_order",
                                     req |-> StopLimitReq, ok |-> ok]>>
             /\ book' = IF ok THEN Append(book, "NEW") ELSE book
             /\ ret' = IF ok THEN Response(StopLimitReq) ELSE ret
             /\ IF ok THEN StopLimitReturn ELSE StopLimitSleep
    /\ UNCHANGED <<inputVars, i, twapVars, gridVars, ocoVars>>

\* variant: a failed placement ends the watch instead of being retried
StopLimitPoll_GivesUpOnFailure ==
    /\ strategy = "stop_limit" /\ pc \in {"call", "poll"} /\ ~Simulated
    /\ polls < MaxPolls
    /\ polls' = polls + 1
    /\ \/ /\ calls' = Append(calls, Ticker(None, FALSE))
          /\ StopLimitSleep
          /\ UNCHANGED <<ret, book>>
       \/ \E price \in TickerPrices :
             /\ ~Triggered(price)
             /\ calls' = Append(calls, Ticker(price, TRUE))
             /\ StopLimitSleep
             /\ UNCHANGED <<ret, book>>
       \/ \E price \in TickerPrices, ok \in BOOLEAN :
             /\ Triggered(price)
             /\ calls' = calls \o <<Ticker(price, TRUE),
                                    [op |-> "futures_create_order",
                                     req |-> StopLimitReq, ok |-> ok]>>
             /\ book' = IF ok THEN Append(book, "NEW") ELSE book
             /\ ret' = IF ok THEN Response(StopLimitReq) ELSE ret
             /\ StopLimitReturn
    /\ UNCHANGED <<inputVars, i, twapVars, gridVars, ocoVars>>

\* variant: a negative poll_interval is waited like any other
StopLimitPoll_SleepNeverRaises ==
    /\ strategy = "stop_limit" /\ pc \in {"call", "poll"} /\ ~Simulated
    /\ polls < MaxPolls
    /\ polls' = polls + 1
    /\ \/ /\ calls' = Append(calls, Ticker(None, FALSE))
          /\ sleeps' = Append(sleeps, args.poll_interval)
          /\ pc' = "poll"
          /\ UNCHANGED <<ret, exc, book>>
       \/ \E price \in TickerPrices :
             /\ ~Triggered(price)
             /\ calls' = Append(calls, Ticker(price, TRUE))
             /\ sleeps' = Append(sleeps, args.poll_interval)
             /\ pc' = "poll"
             /\ UNCHANGED <<ret, exc, book>>
       \/ \E price \in TickerPrices, ok \in BOOLEAN :
             /\ Triggered(price)
             /\ calls' = calls \o <<Ticker(price, TRUE),
                                    [op |-> "futures_create_order",
                                     req |-> StopLimitReq, ok |-> ok]>>
             /\ book' = IF ok THEN Append(book, "NEW") ELSE book
             /\ ret' = IF ok THEN Response(StopLimitReq) ELSE ret
             /\ pc' = IF ok THEN "returned" ELSE "poll"
             /\ sleeps' = IF ok THEN sleeps ELSE Append(sleeps, args.poll_interval)
             /\ exc' = exc
    /\ UNCHANGED <<inputVars, i, twapVars, gridVars, ocoVars>>

\* one iteration of the while-loop: the ticker call, the trigger test, the
\* placement; any exception of these is logged, and the iteration ends with
\* the wait, which is outside the try
StopLimitPoll ==
    /\ strategy = "stop_limit" /\ pc \in {"call", "poll"} /\ ~Simulated
    /\ polls < MaxPolls
    /\ polls' = polls + 1
    /\ \/ /\ calls' = Append(calls, Ticker(None, FALSE))
          /\ StopLimitSleep
          /\ UNCHANGED <<ret, book>>
       \/ \E price \in TickerPrices :
             /\ ~Triggered(price)
             /\ calls' = Append(calls, Ticker(price, TRUE))
             /\ StopLimitSleep
             /\ UNCHANGED <<ret, book>>
       \/ \E price \in TickerPrices, ok \in BOOLEAN :
             /\ Triggered(price)
             /\ calls' = calls \o <<Ticker(price, TRUE),
                                    [op |-> "futures_create_order",
                                     req |-> StopLimitReq, ok |-> ok]>>
             /\ book' = IF ok THEN Append(book, "NEW") ELSE book
             /\ ret' = IF ok THEN Response(StopLimitReq) ELSE ret
             /\ IF ok THEN StopLimitReturn ELSE StopLimitSleep
    /\ UNCHANGED <<inputVars, i, twapVars, gridVars, ocoVars>>

\* ------------------------------------------------------------------------
\* advanced/grid_strategy.create_grid
\* ------------------------------------------------------------------------

\* high - low
GridSpan == DecSub(args.high, args.low, DefaultPrec)

\* (high - low) / Decimal(steps)
GridStepSize == DecDiv(GridSpan, args.steps, DefaultPrec)

\* variant: the levels start one step above low
GridRawPrice_OffByOne ==
    DecAdd(args.low, DecMul(step_size, i + 1, DefaultPrec), DefaultPrec)

\* low + step_size * i, before it is quantized
GridRawPrice == DecAdd(args.low, DecMul(step_size, i, DefaultPrec), DefaultPrec)

\* .quantize(Decimal("1.00"))
GridPrice == Quantize(GridRawPrice, -2, "ROUND_HALF_EVEN", DefaultPrec)

\* the computation of the price raises InvalidOperation: an infinite step
\* times 0, or a price that cannot be quantized
GridPriceRaises ==
    \/ MulRaises(step_size, i)
    \/ AddRaises(args.low, DecMul(step_size, i, DefaultPrec))
    \/ QuantizeRaises(GridRawPrice, -2, "ROUND_HALF_EVEN", DefaultPrec)

\* variant: the bounds check admits low = high
GridStart_AdmitsEqual ==
    /\ strategy = "grid" /\ pc = "call"
    /\ IF DecCmp(args.low, args.high) > 0
       THEN /\ pc' = "raised"
            /\ exc' = "ValueError"
            /\ UNCHANGED <<step_size, ret>>
       ELSE IF DivRaises(GridSpan, args.steps)
       THEN /\ pc' = "raised"
            /\ exc' = "DivisionByZero"
            /\ UNCHANGED <<step_size, ret>>
       ELSE /\ step_size' = GridStepSize
            /\ IF args.steps + 1 > 0
               THEN pc' = "loop" /\ UNCHANGED ret
               ELSE pc' = "returned" /\ ret' = orders
            /\ exc' = exc
    /\ UNCHANGED <<inputVars, i, twapVars, levels, orders, ocoVars, polls,
                   sleeps, calls, book>>

\* entry of create_grid up to the loop
GridStart ==
    /\ strategy = "grid" /\ pc = "call"
    /\ IF DecCmp(args.low, args.high) >= 0
       THEN /\ pc' = "raised"
            /\ exc' = "ValueError"
            /\ UNCHANGED <<step_size, ret>>
       ELSE IF DivRaises(GridSpan, args.steps)
       THEN /\ pc' = "raised"
            /\ exc' = "DivisionByZero"
            /\ UNCHANGED <<step_size, ret>>
       ELSE /\ step_size' = GridStepSize
            /\ IF args.steps + 1 > 0
               THEN pc' = "loop" /\ UNCHANGED ret
               ELSE pc' = "returned" /\ ret' = orders
            /\ exc' = exc
    /\ UNCHANGED <<inputVars, i, twapVars, levels, orders, ocoVars, polls,
                   sleeps, calls, book>>

GridReq ==
    OrderReq("BUY", "LIMIT", "GTC", Float(args.qty_per_order), DecStr(GridPrice), None)

\* one iteration of the loop, and the return after the last one; a failed
\* placement is logged and leaves no entry in orders
GridLevel ==
    /\ strategy = "grid" /\ pc = "loop" /\ i <= args.steps
    /\ IF GridPriceRaises
       THEN /\ pc' = "raised"
            /\ exc' = "InvalidOperation"
            /\ UNCHANGED <<ret, i, levels, orders, calls, book>>
       ELSE /\ levels' = Append(levels, GridPrice)
            /\ \/ /\ Simulated
                  /\ orders' = Append(orders, [price |-> DecStr(GridPrice),
                                               qty |-> DecStr(args.qty_per_order),
                                               status |-> "DRY_RUN"])
                  /\ UNCHANGED <<calls, book>>
               \/ /\ ~Simulated
                  /\ \E ok \in BOOLEAN :
                        /\ CreateOrder(GridReq, ok)
                        /\ orders' = IF ok THEN Append(orders, Response(GridReq))
                                     ELSE orders
            /\ i' = i + 1
            /\ IF i < args.steps
               THEN UNCHANGED <<pc, ret>>
               ELSE pc' = "returned" /\ ret' = orders'
            /\ exc' = exc
    /\ UNCHANGED <<inputVars, twapVars, step_size, ocoVars, polls, sleeps>>

\* ------------------------------------------------------------------------
\* The entry points: main() of market_orders.py and limit_orders.py, the
\* __main__ blocks of the advanced scripts
\* ------------------------------------------------------------------------

\* the try-block passed: the validated values become the call's arguments
MainProceed(a) ==
    /\ args' = a
    /\ pc' = "validated"
    /\ UNCHANGED <<exit_status, logged>>

\* logger.error(f"Validation error: {e}"), then the process ends with status
MainReject(status) ==
    /\ logged' = Append(logged, "Validation error")
    /\ exit_status' = <<status>>
    /\ pc' = "exit"
    /\ UNCHANGED args

MainFrame ==
    UNCHANGED <<strategy, client, dry_run, argv, env, ret, exc, i, twapVars,
                gridVars, ocoVars, polls, sleeps, calls, book>>

\* the end of the try-block: every validator returned, or one of them raised
MainTry(checks, a, status) ==
    IF \A k \in 1..Len(checks) : checks[k].ok
    THEN MainProceed(a) ELSE MainReject(status)

MarketCall(symbol, side, qty) ==
    MainTry(<<symbol, side, qty>>,
            [symbol |-> symbol.val, side |-> side.val, qty |-> qty.val], 0)

\* market_orders.main: on a validation error it logs and returns
market_main ==
    /\ strategy = "market" /\ pc = "main"
    /\ MarketCall(validate_symbol(argv.symbol), validate_side(argv.side),
                  validate_quantity(argv.qty))
    /\ MainFrame

LimitCall(symbol, side, qty, price) ==
    MainTry(<<symbol, side, qty, price>>,
            [symbol |-> symbol.val, side |-> side.val, qty |-> qty.val,
             price |-> price.val, time_in_force |-> "GTC"], 0)

\* limit_orders.main: on a validation error it logs and returns
limit_main ==
    /\ strategy = "limit" /\ pc = "main"
    /\ LimitCall(validate_symbol(argv.symbol), validate_side(argv.side),
                 validate_quantity(argv.qty), validate_price(argv.price))
    /\ MainFrame

TwapCall(symbol, side, params) ==
    MainTry(<<symbol, side, params>>,
            [symbol |-> symbol.val, side |-> side.val, total_qty |-> params.val[1],
             chunks |-> params.val[2], duration_s |-> params.val[3]], 1)

\* twap.py __main__: on a validation error it logs and raises SystemExit(1)
twap_main ==
    /\ strategy = "twap" /\ pc = "main"
    /\ TwapCall(validate_symbol(argv.symbol), validate_side(argv.side),
                validate_twap_params(argv.total, argv.chunks, argv.duration))
    /\ MainFrame

OcoCall(symbol, side, qty, tp, sl) ==
    MainTry(<<symbol, side, qty, tp, sl>>,
            [symbol |-> symbol.val, side |-> side.val, qty |-> qty.val,
             tp_price |-> tp.val, sl_price |-> sl.val], 1)

\* oco.py __main__
oco_main ==
    /\ strategy = "oco" /\ pc = "main"
    /\ OcoCall(validate_symbol(argv.symbol), validate_side(argv.side),
               validate_quantity(argv.qty), validate_price(argv.tp),
               validate_price(argv.sl))
    /\ MainFrame

StopLimitCall(symbol, side, qty, stop, limit) ==
    MainTry(<<symbol, side, qty, stop, limit>>,
            [symbol |-> symbol.val, side |-> side.val, qty |-> qty.val,
             stop_price |-> stop.val, limit_price |-> limit.val,
             poll_interval |-> argv.poll_interval], 1)

\* stop_limit.py __main__
stop_limit_main ==
    /\ strategy = "stop_limit" /\ pc = "main"
    /\ StopLimitCall(validate_symbol(argv.symbol), validate_side(argv.side),
                     validate_quantity(argv.qty), validate_price(argv.stop),
                     validate_price(argv.limit))
    /\ MainFrame

GridCall(symbol, low, high, steps, qty) ==
    MainTry(<<symbol, low, high, steps, qty>>,
            [symbol |-> symbol.val, low |-> low.val, high |-> high.val,
             steps |-> steps.val, qty_per_order |-> qty.val], 1)

\* grid_strategy.py __main__: steps = int(args.steps), with no range check
grid_main ==
    /\ strategy = "grid" /\ pc = "main"
    /\ GridCall(validate_symbol(argv.symbol), validate_price(argv.low),
                validate_price(argv.high), ParseInt(argv.steps),
                validate_quantity(argv.qty))
    /\ MainFrame

\* create_client(): None unless both keys are set
create_client ==
    IF env.key \in {None, ""} \/ env.secret \in {None, ""} THEN None ELSE "Client"

\* client = create_client(), then the call of the strategy
MainCreateClient ==
    /\ pc = "validated"
    /\ client' = create_client
    /\ pc' = "call"
    /\ UNCHANGED <<strategy, dry_run, args, argv, env, exit_status, logged, ret, exc,
                   i, twapVars, gridVars, ocoVars, polls, sleeps, calls, book>>

\* the end of an entry point: the strategy's result is logged at info level
\* and the script ends with status 0, or the exception the strategy raised
\* ends it with a traceback and status 1; the interpreter's exit ends the
\* daemon watcher thread wherever it is
MainEnd ==
    /\ DOMAIN argv # {}
    /\ pc \in {"returned", "raised"} /\ exit_status = <<>>
    /\ exit_status' = <<IF pc = "returned" THEN 0 ELSE 1>>
    /\ wpc' = IF wpc \in {"get_tp", "get_sl", "decide", "sleep"} THEN "killed" ELSE wpc
    /\ UNCHANGED <<strategy, client, dry_run, args, argv, env, logged, pc, ret, exc, i,
                   twapVars, gridVars, tp_order, sl_order, tp_status, sl_status,
                   polls, sleeps, calls, book>>

\* logger.info(f"Result: {res}") and the end of market_orders.py
market_end == strategy = "market" /\ MainEnd

\* logger.info(f"Result: {res}") and the end of limit_orders.py
limit_end == strategy = "limit" /\ MainEnd

\* logger.info(f"TWAP result: {res}") and the end of twap.py
twap_end == strategy = "twap" /\ MainEnd

\* logger.info(f"Placed OCO result: {res}") and the end of oco.py
oco_end == strategy = "oco" /\ MainEnd

\* logger.info(f"Result: {res}") and the end of stop_limit.py
stop_limit_end == strategy = "stop_limit" /\ MainEnd

\* logger.info(f"Grid result: {res}") and the end of grid_strategy.py
grid_end == strategy = "grid" /\ MainEnd

Next ==
    \/ market_main
    \/ limit_main
    \/ twap_main
    \/ oco_main
    \/ stop_limit_main
    \/ grid_main
    \/ MainCreateClient
    \/ market_end
    \/ limit_end
    \/ twap_end
    \/ oco_end
    \/ stop_limit_end
    \/ grid_end
    \/ place_market_order
    \/ place_limit_order
    \/ TwapStart
    \/ TwapChunk
    \/ OcoDryRun
    \/ OcoPlaceTp
    \/ OcoPlaceSl
    \/ OcoStartWatcher
    \/ OcoReturn
    \/ WatcherGetTp
    \/ WatcherGetSl
    \/ WatcherDecide
    \/ WatcherSleep
    \/ ExchangeFill
    \/ StopLimitDryRun
    \/ StopLimitPoll
    \/ GridStart
    \/ GridLevel

Spec == Init /\ [][Next]_vars

\* ------------------------------------------------------------------------
\* Properties
\* ------------------------------------------------------------------------

CallsOf(op) == SelectSeq(calls, LAMBDA c : c.op = op)

LiveMode == ~(dry_run \/ client = None)

\* a + b with no rounding
ExactAdd(a, b) ==
    LET e == Min(a.exp, b.exp)
        x == Strip(a.int \o Zeros(a.exp - e))
        y == Strip(b.int \o Zeros(b.exp - e))
    IN  IF a.sign = b.sign THEN Dec(a.sign, AddNat(x, y), e)
        ELSE IF CmpNat(x, y) >= 0 THEN Dec(a.sign, SubNat(x, y), e)
        ELSE Dec(b.sign, SubNat(y, x), e)

\* a * n with no rounding, n >= 0
ExactMul(a, n) == Dec(a.sign, MulNat(a.int, n), a.exp)

RECURSIVE ExactSum(_)
ExactSum(q) == IF Len(q) = 0 THEN NoDec ELSE ExactAdd(q[1], ExactSum(Tail(q)))

\* C1: the chunk quantities run_twap has emitted when it returns are one per
\* chunk and sum to the total quantity exactly.
C1_ChunksSumToTotal ==
    (strategy = "twap" /\ pc = "returned") =>
        /\ Len(execute_qty) = args.chunks
        /\ DecCmp(ExactSum(execute_qty), args.total_qty) = 0

\* the take-profit leg is FILLED at the watcher's first query and the
\* stop-loss leg has not filled
C2_Scenario ==
    /\ strategy = "oco" /\ wpc # "none"
    /\ Len(CallsOf("futures_get_order")) > 0
    /\ CallsOf("futures_get_order")[1].ok
    /\ CallsOf("futures_get_order")[1].status = "FILLED"
    /\ book[sl_order.orderId] # "FILLED"

C2_Cancels == CallsOf("futures_cancel_order")

\* C2 as stated: with the take-profit leg FILLED at the first query and the
\* stop-loss leg never filling, the watcher issues one cancel call, against
\* the stop-loss leg, and has terminated once it has issued it.
C2_ExactlyOneCancel ==
    C2_Scenario =>
        /\ Len(C2_Cancels) <= 1
        /\ \A k \in 1..Len(C2_Cancels) : C2_Cancels[k].orderId = sl_order.orderId
        /\ Len(C2_Cancels) = 1 => wpc = "closed_tp"

\* C2 amended: in that scenario every cancel call targets the stop-loss leg,
\* only the last one can have succeeded, the watcher has terminated, as
\* CLOSED(tp), exactly when one has succeeded, and there is a single cancel
\* call when no cancel call has raised.
C2_CancelsStopLossUntilSuccess ==
    C2_Scenario =>
        /\ \A k \in 1..Len(C2_Cancels) :
              /\ C2_Cancels[k].orderId = sl_order.orderId
              /\ C2_Cancels[k].ok => k = Len(C2_Cancels)
        /\ wpc = "closed_tp" <=> (\E k \in 1..Len(C2_Cancels) : C2_Cancels[k].ok)
        /\ wpc # "closed_sl"
        /\ (\A k \in 1..Len(C2_Cancels) : C2_Cancels[k].ok) => Len(C2_Cancels) <= 1

C2_Witness ==
    /\ C2_Scenario
    /\ wpc = "closed_tp"
    /\ Len(C2_Cancels) = 1
    /\ book[sl_order.orderId] = "CANCELED"

\* C3: once both legs of a live bracket are placed, no leg is FILLED while
\* the other is still open or FILLED as well.
C3_AtMostOneFilled ==
    (strategy = "oco" /\ wpc # "none") =>
        LET t == book[tp_order.orderId]
            l == book[sl_order.orderId]
        IN  /\ ~(t = "FILLED" /\ l \in {"NEW", "FILLED"})
            /\ ~(l = "FILLED" /\ t \in {"NEW", "FILLED"})

\* BUY: price >= stop; SELL: price <= stop
C4_Cond(price) ==
    IF args.side = "BUY" THEN DecCmp(price, args.stop_price) >= 0
    ELSE DecCmp(price, args.stop_price) <= 0

C4_IsPlacement(c) ==
    /\ c.op = "futures_create_order"
    /\ c.req.type = "LIMIT"
    /\ c.req.side = args.side
    /\ c.req.quantity = Canon(args.qty)
    /\ c.req.price = DecStr(args.limit_price)

\* a placement is only ever made right after a ticker answer that meets the
\* trigger condition, and it is the configured limit order
C4_NoFalseFire ==
    \A k \in 1..Len(calls) :
        calls[k].op = "futures_create_order" =>
            /\ C4_IsPlacement(calls[k])
            /\ k > 1
            /\ calls[k - 1].op = "futures_symbol_ticker"
            /\ calls[k - 1].ok
            /\ C4_Cond(calls[k - 1].price)

\* every ticker answer that meets the trigger condition is followed by a
\* placement
C4_FiresOnCond ==
    \A k \in 1..Len(calls) :
        (calls[k].op = "futures_symbol_ticker" /\ calls[k].ok /\ C4_Cond(calls[k].price))
            => (k < Len(calls) /\ calls[k + 1].op = "futures_create_order")

\* C4 as stated: no order on a poll where the condition is false; on the
\* first poll where it holds the watcher fires, once, and returns the order.
C4_FiresOnceOnFirstTrigger ==
    (strategy = "stop_limit" /\ LiveMode) =>
        /\ C4_NoFalseFire
        /\ C4_FiresOnCond
        /\ Len(CallsOf("futures_create_order")) <= 1
        /\ Len(CallsOf("futures_create_order")) = 1 =>
              (pc = "returned" /\ ret.orderId = Len(book))

\* C4 amended: no order on a poll where the condition is false; on every
\* poll where it holds one placement of the configured limit order is
\* attempted; a placement that succeeds is the last call, is returned and
\* ends the watcher, and the watcher returns in no other way. A placement
\* that raises is followed by the wait: with poll_interval >= 0 the watcher
\* is left polling and its next call is the next ticker reading; with
\* poll_interval < 0 the wait raises ValueError, which ends the call with no
\* order returned.
C4_FiresUntilPlaced ==
    (strategy = "stop_limit" /\ LiveMode) =>
        /\ C4_NoFalseFire
        /\ C4_FiresOnCond
        /\ \A k \in 1..Len(calls) :
              (calls[k].op = "futures_create_order" /\ calls[k].ok) =>
                  /\ k = Len(calls)
                  /\ pc = "returned"
                  /\ ret.orderId = Len(book) /\ Len(book) = 1
                  /\ ret.type = "LIMIT" /\ ret.side = args.side
                  /\ ret.price = DecStr(args.limit_price)
                  /\ ret.origQty = Canon(args.qty)
        /\ pc = "returned" =>
              (Len(calls) > 0 /\ calls[Len(calls)].op = "futures_create_order"
                   /\ calls[Len(calls)].ok)
        /\ \A k \in 1..Len(calls) :
              (calls[k].op = "futures_create_order" /\ ~calls[k].ok) =>
                  IF args.poll_interval >= 0
                  THEN IF k = Len(calls)
                       THEN pc = "poll" /\ exc = None /\ Len(sleeps) = polls
                       ELSE calls[k + 1].op = "futures_symbol_ticker"
                  ELSE /\ k = Len(calls)
                       /\ pc = "raised" /\ exc = "ValueError"
                       /\ ret = None /\ book = <<>>
                       /\ sleeps = <<args.poll_interval>>

\* a poll that did not meet the condition, a poll whose placement raised, and
\* a poll whose placement succeeded and was returned
C4_Witness ==
    /\ strategy = "stop_limit" /\ LiveMode
    /\ pc = "returned" /\ args.side = "SELL"
    /\ Len(calls) = 5
    /\ calls[1].op = "futures_symbol_ticker" /\ calls[1].ok /\ ~C4_Cond(calls[1].price)
    /\ calls[3].op = "futures_create_order" /\ ~calls[3].ok
    /\ calls[5].op = "futures_create_order" /\ calls[5].ok

C5_AllDryRun ==
    IF strategy \in {"twap", "grid"}
    THEN \A k \in 1..Len(ret) : ret[k].status = "DRY_RUN"
    ELSE ret.status = "DRY_RUN"

\* C5: with dry_run set or no client, no client call is made, no order
\* reaches the exchange, no watcher thread is started, and every result
\* record returned has status DRY_RUN.
C5_DryRunTouchesNothing ==
    (dry_run \/ client = None) =>
        /\ calls = <<>>
        /\ book = <<>>
        /\ wpc = "none"
        /\ pc = "returned" => C5_AllDryRun

C5_Witness ==
    /\ client = None /\ ~dry_run
    /\ strategy = "twap" /\ pc = "returned"
    /\ Len(ret) >= 2

\* the quantity scheduled for chunk k
C6_Sched(k) ==
    IF k = args.chunks THEN DecAdd(qty_per, remainder, TwapPrec) ELSE qty_per

\* C6: run_twap returns one entry per chunk in chunk order; each chunk is
\* attempted with its scheduled quantity whatever happened to the chunks
\* before it, and a failed chunk leaves an ERROR record in its own place.
C6_OneResultPerChunk ==
    (strategy = "twap" /\ pc = "returned") =>
        /\ Len(ret) = args.chunks
        /\ ~LiveMode =>
              \A k \in 1..Len(ret) :
                  ret[k] = [chunk |-> k, status |-> "DRY_RUN",
                            qty |-> DecStr(C6_Sched(k))]
        /\ LiveMode =>
              /\ Len(calls) = args.chunks
              /\ \A k \in 1..Len(ret) :
                    /\ k <= Len(calls)
                    /\ calls[k].op = "futures_create_order"
                    /\ calls[k].req.type = "MARKET"
                    /\ calls[k].req.quantity = Canon(C6_Sched(k))
                    /\ IF calls[k].ok
                       THEN ret[k].status = "NEW" /\ ret[k].origQty = Canon(C6_Sched(k))
                       ELSE ret[k] = [chunk |-> k, status |-> "ERROR"]

\* a failure on the first chunk, the later chunks placed
C6_Witness ==
    /\ strategy = "twap" /\ pc = "returned" /\ LiveMode
    /\ args.chunks = 3
    /\ ~calls[1].ok /\ calls[2].ok /\ calls[3].ok
    /\ ret[1].status = "ERROR"

\* C7: in live mode a failed leg placement leaves place_oco by the
\* exception, with nothing returned and no watcher thread started.
C7_FailedLegIsFatal ==
    (strategy = "oco" /\ \E k \in 1..Len(calls) :
                            calls[k].op = "futures_create_order" /\ ~calls[k].ok) =>
        /\ pc = "raised"
        /\ exc = "Exception"
        /\ ret = None
        /\ wpc = "none"

\* the take-profit leg placed, the stop-loss placement failed
C7_Witness ==
    /\ strategy = "oco" /\ pc = "raised"
    /\ Len(calls) = 2 /\ calls[1].ok /\ ~calls[2].ok
    /\ wpc = "none"

C8_Step ==
    /\ WatcherStateOf(wpc') # WatcherStateOf(wpc) =>
          \/ WatcherStateOf(wpc) = "none" /\ WatcherStateOf(wpc') = "OPEN"
          \/ /\ WatcherStateOf(wpc) = "OPEN" /\ WatcherStateOf(wpc') = "CLOSED(tp)"
             /\ tp_status = "FILLED"
             /\ calls' = Append(calls, [op |-> "futures_cancel_order",
                                        orderId |-> sl_order.orderId, ok |-> TRUE])
          \/ /\ WatcherStateOf(wpc) = "OPEN" /\ WatcherStateOf(wpc') = "CLOSED(sl)"
             /\ sl_status = "FILLED"
             /\ calls' = Append(calls, [op |-> "futures_cancel_order",
                                        orderId |-> tp_order.orderId, ok |-> TRUE])
          \* the end of the process, which is no step of the watcher
          \/ /\ exit_status = <<>> /\ exit_status' # <<>>
             /\ WatcherStateOf(wpc) = "OPEN" /\ WatcherStateOf(wpc') = "TERMINATED"
             /\ UNCHANGED <<calls, book, sleeps, polls>>
    /\ (wpc # "none" /\ Len(calls') > Len(calls) /\ ~calls'[Len(calls')].ok) =>
          wpc' = "sleep"
    /\ (wpc = "sleep" /\ wpc' # wpc /\ exit_status' = exit_status) => wpc' = "get_tp"

\* C8: the watcher leaves OPEN only for CLOSED(tp), on a successful cancel
\* of the stop-loss leg after the take-profit leg was seen FILLED, or for
\* CLOSED(sl), symmetrically; a query or cancel that raises leaves it OPEN
\* and asleep, and from its sleep it goes on to the next poll. Nothing but
\* the end of the whole process ends an OPEN watcher otherwise.
C8_WatcherTransitions == [][C8_Step]_vars

\* closed on the stop-loss side after an earlier call had raised
C8_Witness ==
    /\ wpc = "closed_sl"
    /\ \E k \in 1..Len(calls) :
          calls[k].op \in {"futures_get_order", "futures_cancel_order"} /\ ~calls[k].ok

C9_Abs(d) == Dec(0, d.int, d.exp)

\* level k is within half a cent of low + (high - low) * (k - 1) / steps:
\* 200 * |steps * level - (steps * low + (k - 1) * (high - low))| <= steps
C9_EvenlySpaced(k) ==
    LET exact == ExactAdd(ExactMul(args.low, args.steps),
                          ExactMul(ExactAdd(args.high, copy_negate(args.low)), k - 1))
        diff  == C9_Abs(ExactAdd(ExactMul(levels[k], args.steps), copy_negate(exact)))
    IN  DecCmp(ExactMul(diff, 200), DecimalOfInt(args.steps)) <= 0

C9_ExampleLevels ==
    <<"60000.00", "61000.00", "62000.00", "63000.00", "64000.00", "65000.00",
      "66000.00", "67000.00", "68000.00", "69000.00", "70000.00">>

\* C9: for low < high and steps >= 1 create_grid produces steps + 1 levels,
\* ascending, evenly spaced from low to high, each with two decimals and the
\* configured quantity; 60000..70000 in 10 steps gives 60000.00, 61000.00,
\* ..., 70000.00.
C9_GridLevels ==
    (strategy = "grid" /\ pc = "returned" /\ args.steps >= 1) =>
        /\ Len(levels) = args.steps + 1
        /\ levels[1] = Rescale(args.low, -2, "ROUND_HALF_EVEN")
        /\ levels[args.steps + 1] = Rescale(args.high, -2, "ROUND_HALF_EVEN")
        /\ \A k \in 1..Len(levels) : levels[k].exp = -2 /\ C9_EvenlySpaced(k)
        /\ \A k \in 1..(Len(levels) - 1) : DecCmp(levels[k], levels[k + 1]) <= 0
        /\ ~LiveMode =>
              /\ Len(ret) = args.steps + 1
              /\ \A k \in 1..Len(ret) :
                    ret[k] = [price |-> DecStr(levels[k]),
                              qty |-> DecStr(args.qty_per_order),
                              status |-> "DRY_RUN"]
        /\ LiveMode =>
              /\ Len(calls) = args.steps + 1
              /\ \A k \in 1..Len(calls) :
                    /\ calls[k].req.price = DecStr(levels[k])
                    /\ calls[k].req.quantity = Canon(args.qty_per_order)
                    /\ calls[k].req.side = "BUY" /\ calls[k].req.type = "LIMIT"
        /\ args.steps = 10 =>
              [k \in 1..Len(levels) |-> DecStr(levels[k])] = C9_ExampleLevels

C9_Witness ==
    /\ strategy = "grid" /\ pc = "returned" /\ args.steps = 10
    /\ Len(levels) = 11
    /\ DecStr(levels[2]) = "61000.00"

\* C10: create_grid with low >= high raises the validation error with no
\* level computed, no placement attempted and no result record produced,
\* whether live or simulated.
C10_BadBoundsRejected ==
    (strategy = "grid" /\ pc \in {"loop", "returned", "raised"}
         /\ DecCmp(args.low, args.high) >= 0) =>
        /\ pc = "raised"
        /\ exc = "ValueError"
        /\ calls = <<>>
        /\ levels = <<>>
        /\ orders = <<>>
        /\ ret = None

\* low = high by value, live
C10_Witness ==
    /\ strategy = "grid" /\ pc = "raised" /\ exc = "ValueError"
    /\ DecCmp(args.low, args.high) = 0
    /\ LiveMode /\ args.steps >= 1

\* C11: a live create_grid returns one entry per level, steps + 1 in all, in
\* level order; a level whose placement failed is recorded as an ERROR entry
\* at its position and the levels after it are still placed.
C11_OneResultPerLevel ==
    (strategy = "grid" /\ LiveMode /\ pc = "returned" /\ args.steps >= 0) =>
        /\ Len(calls) = args.steps + 1
        /\ Len(ret) = args.steps + 1
        /\ \A k \in 1..Len(ret) :
              IF calls[k].ok THEN ret[k].price = DecStr(levels[k])
              ELSE ret[k].status = "ERROR"

\* the step of a live place_oco
C12_Step ==
    (strategy = "oco" /\ LiveMode) =>
        \* the return hands back the two placed orders and waits for nothing:
        \* it makes no call, no poll and no sleep of its own
        /\ (pc # "returned" /\ pc' = "returned") =>
              /\ Len(calls) >= 2
              /\ \A k \in 1..2 : calls[k].op = "futures_create_order" /\ calls[k].ok
              /\ ret' = [tp |-> tp_order, sl |-> sl_order]
              /\ ret'.tp.orderId = 1 /\ ret'.sl.orderId = 2
              /\ WatcherStateOf(wpc) # "none"
              /\ UNCHANGED <<calls, book, polls, sleeps, wpc>>
        \* every query, cancel and sleep is the watcher's: the caller's
        \* position and result are not touched by it
        /\ (polls' > polls \/ sleeps' # sleeps
               \/ (Len(calls') > Len(calls) /\ Len(calls) >= 2)) =>
              UNCHANGED <<pc, ret>>
        \* after the return the watcher goes on until it has closed the bracket
        /\ (pc = "returned" /\ WatcherStateOf(wpc) = "OPEN") =>
              WatcherStateOf(wpc') \in {"OPEN", "CLOSED(tp)", "CLOSED(sl)"}

\* C12: a live place_oco returns the pair of placed orders once both legs
\* are placed, without a poll, a sleep or a fill of its own, and the watcher
\* it started keeps polling next to the caller after the return, until it
\* has closed the bracket.
C12_WatcherOutlivesCall == [][C12_Step]_vars

C13_Placed == \E k \in 1..Len(calls) : calls[k].op = "futures_create_order" /\ calls[k].ok

\* C13 as stated: the live stop-limit watcher does not block its caller;
\* while it polls and the stop condition has not led to an order, the caller
\* already has control back.
C13_ReturnsBeforeTrigger ==
    (strategy = "stop_limit" /\ LiveMode /\ polls >= 1 /\ ~C13_Placed) =>
        pc = "returned"

\* C13 amended: stop_limit_watch_and_place starts no background task; every
\* poll and every wait between polls is made inside the call. With
\* poll_interval >= 0 the live call ends only by returning the limit order a
\* triggering poll placed, and after a poll that placed nothing the caller
\* is still inside it; the simulated call returns only after its two
\* simulated waits. With poll_interval < 0 the first wait raises ValueError:
\* the live call ends with it after the first poll unless that poll placed
\* the order, the simulated call at its first wait with no record.
C13_BlocksCaller ==
    strategy = "stop_limit" =>
        /\ wpc = "none"
        /\ LiveMode =>
              /\ pc = "returned" <=> C13_Placed
              /\ pc = "raised" <=> (polls >= 1 /\ ~C13_Placed /\ args.poll_interval < 0)
              /\ pc = "raised" => (exc = "ValueError" /\ ret = None /\ polls = 1)
              /\ (polls >= 1 /\ ~C13_Placed /\ args.poll_interval >= 0) =>
                    (pc = "poll" /\ exc = None)
              /\ Len(CallsOf("futures_symbol_ticker")) = polls
              /\ Len(sleeps) = IF pc = "returned" THEN polls - 1 ELSE polls
              /\ \A k \in 1..Len(sleeps) : sleeps[k] = args.poll_interval
        /\ (~LiveMode /\ pc = "returned") =>
              /\ calls = <<>> /\ args.poll_interval >= 0
              /\ sleeps = <<args.poll_interval, args.poll_interval>>
        /\ (~LiveMode /\ pc = "raised") =>
              /\ calls = <<>> /\ args.poll_interval < 0
              /\ sleeps = <<args.poll_interval>>
              /\ exc = "ValueError" /\ ret = None

\* two polls made and waited for, the caller still inside the call
C13_Witness ==
    /\ strategy = "stop_limit" /\ LiveMode
    /\ polls = 2 /\ Len(sleeps) = 2 /\ ~C13_Placed
    /\ pc = "poll" /\ ret = None

\* the record carries field f with value v
C14_Has(r, f, v) == f \in DOMAIN r /\ r[f] = v

\* the record names the symbol, the side (where the strategy has one) and
\* the quantity of the call
C14_EchoesIntent(r, qty) ==
    /\ C14_Has(r, "status", "DRY_RUN")
    /\ C14_Has(r, "symbol", args.symbol)
    /\ strategy # "grid" => C14_Has(r, "side", args.side)
    /\ C14_Has(r, "qty", DecStr(qty))

\* C14: the DRY_RUN result of every strategy echoes symbol, side, quantity
\* and price(s), each equal to the corresponding input of the call.
C14_DryRunEchoesInputs ==
    (~LiveMode /\ pc = "returned") =>
        CASE strategy = "market" -> C14_EchoesIntent(ret, args.qty)
          [] strategy = "limit" ->
                /\ C14_EchoesIntent(ret, args.qty)
                /\ C14_Has(ret, "price", DecStr(args.price))
          [] strategy = "stop_limit" ->
                /\ C14_EchoesIntent(ret, args.qty)
                /\ C14_Has(ret, "stop", DecStr(args.stop_price))
                /\ C14_Has(ret, "limit", DecStr(args.limit_price))
          [] strategy = "oco" ->
                /\ C14_EchoesIntent(ret, args.qty)
                /\ \E f \in DOMAIN ret : ret[f] = DecStr(args.tp_price)
                /\ \E f \in DOMAIN ret : ret[f] = DecStr(args.sl_price)
          [] strategy = "twap" ->
                \A k \in 1..Len(ret) : C14_EchoesIntent(ret[k], execute_qty[k])
          [] strategy = "grid" ->
                \A k \in 1..Len(ret) :
                    /\ C14_EchoesIntent(ret[k], args.qty_per_order)
                    /\ C14_Has(ret[k], "price", DecStr(levels[k]))

\* the run started at an entry point
FromCommandLine == DOMAIN argv # {}

\* the quantity and price arguments of the command line
C15_Numbers ==
    CASE strategy = "market" -> {argv.qty}
      [] strategy = "limit" -> {argv.qty, argv.price}
      [] strategy = "twap" -> {argv.total}
      [] strategy = "oco" -> {argv.qty, argv.tp, argv.sl}
      [] strategy = "stop_limit" -> {argv.qty, argv.stop, argv.limit}
      [] strategy = "grid" -> {argv.low, argv.high, argv.qty}

\* C15: at every entry point a quantity or price that is zero, negative or
\* no number is rejected by the validation: the run ends there, before
\* create_client is called, and no placement, query or cancel call is made.
C15_BadNumberRejected ==
    (FromCommandLine /\ pc # "main" /\ C15_Numbers \cap RawBadNumbers # {}) =>
        /\ pc = "exit"
        /\ logged = <<"Validation error">>
        /\ client = Unset
        /\ calls = <<>> /\ book = <<>> /\ wpc = "none"
        /\ args = None /\ ret = None

\* a live bracket command with keys in the environment whose take-profit
\* price is no number
C15_Witness ==
    /\ FromCommandLine /\ strategy = "oco" /\ pc = "exit"
    /\ ~dry_run /\ env = [key |-> "k", secret |-> "s"]
    /\ argv.tp \in RawNonNumbers
    /\ argv.qty \in RawGoodNumbers /\ argv.sl \notin RawBadNumbers

\* C16: at every entry point a validation failure ends the process with a
\* non-zero exit status after the error is logged.
C16_ValidationFailureExitsNonZero ==
    (FromCommandLine /\ pc = "exit") =>
        /\ logged = <<"Validation error">>
        /\ Len(exit_status) = 1
        /\ exit_status[1] # 0

\* a chunk or step count that is not positive, written as an integer
C17_NonPositiveCount(raw) == ParseInt(raw).ok /\ ParseInt(raw).val <= 0

\* C17: a TWAP chunk count and a grid step count that are not positive are
\* rejected as validation errors before the client is created, with no call
\* made, no order placed and nothing returned.
C17_NonPositiveCountRejected ==
    (/\ FromCommandLine /\ pc # "main"
     /\ \/ strategy = "twap" /\ C17_NonPositiveCount(argv.chunks)
        \/ strategy = "grid" /\ C17_NonPositiveCount(argv.steps)) =>
        /\ pc = "exit"
        /\ logged = <<"Validation error">>
        /\ client = Unset
        /\ calls = <<>> /\ book = <<>>
        /\ args = None /\ ret = None

\* C18: run_twap makes one placement attempt per chunk, N in all, one after
\* the other, and sleeps for duration_s / chunks after each chunk but the
\* last, N - 1 times in all, whether or not the attempt failed; with
\* duration_s = 0 every sleep is of length 0.
C18_SleepsBetweenChunks ==
    (strategy = "twap" /\ pc \in {"loop", "returned"}) =>
        /\ i <= args.chunks
        /\ pc = "returned" <=> i = args.chunks
        /\ Len(execute_qty) = i
        /\ LiveMode =>
              /\ Len(calls) = i
              /\ \A k \in 1..Len(calls) :
                    calls[k].op = "futures_create_order" /\ calls[k].req.type = "MARKET"
        /\ Len(sleeps) = IF i < args.chunks THEN i ELSE args.chunks - 1
        /\ \A k \in 1..Len(sleeps) :
              /\ sleeps[k] = [num |-> args.duration_s, den |-> args.chunks]
              /\ args.duration_s = 0 => sleeps[k].num = 0

\* four live chunks over a duration of 0, the second and the last attempt
\* failed: four attempts, three sleeps of length 0
C18_Witness ==
    /\ strategy = "twap" /\ LiveMode /\ pc = "returned"
    /\ args.chunks = 4 /\ args.duration_s = 0
    /\ Len(calls) = 4 /\ ~calls[2].ok /\ ~calls[4].ok /\ calls[3].ok
    /\ sleeps = <<[num |-> 0, den |-> 4], [num |-> 0, den |-> 4], [num |-> 0, den |-> 4]>>

\* C19: when the take-profit placement of place_oco succeeds and the
\* stop-loss placement fails, the error reaches the caller, no cancel is
\* issued, the take-profit order stays on the exchange uncancelled and no
\* watcher is started.
C19_FirstLegLeftLive ==
    (strategy = "oco" /\ Len(calls) >= 2 /\ calls[1].ok /\ ~calls[2].ok) =>
        /\ pc = "raised" /\ exc = "Exception" /\ ret = None
        /\ Len(calls) = 2
        /\ CallsOf("futures_cancel_order") = <<>>
        /\ Len(book) = 1 /\ book[tp_order.orderId] \in {"NEW", "FILLED"}
        /\ wpc = "none" /\ polls = 0
        /\ sl_order = None

\* the take-profit order is open on the exchange, the caller has the error
C19_Witness ==
    /\ strategy = "oco" /\ pc = "raised"
    /\ Len(calls) = 2 /\ calls[1].ok /\ ~calls[2].ok
    /\ calls[2].req.type = "STOP_MARKET"
    /\ book = <<"NEW">> /\ wpc = "none"

\* the watcher has read FILLED for both legs
C20_BothFilled == tp_status = "FILLED" /\ sl_status = "FILLED"

C20_Step ==
    (strategy = "oco" /\ C20_BothFilled /\ exit_status' = <<>>) =>
        \* the poll that has read both statuses issues one cancel, for the
        \* stop-loss order; it fails and the watcher sleeps and polls again
        /\ (wpc = "decide" /\ wpc' # wpc) =>
              /\ calls' = Append(calls, [op |-> "futures_cancel_order",
                                         orderId |-> sl_order.orderId, ok |-> FALSE])
              /\ book' = book
              /\ wpc' = "sleep"
        \* from then on no cancel names the take-profit order
        /\ \A k \in (Len(calls) + 1)..Len(calls') :
              calls'[k].op = "futures_cancel_order" =>
                  calls'[k].orderId = sl_order.orderId
        \* and the watcher stays OPEN with both legs FILLED
        /\ WatcherStateOf(wpc) = "OPEN" /\ WatcherStateOf(wpc') = "OPEN"
        /\ tp_status' = "FILLED" /\ sl_status' = "FILLED"

\* C20: a poll of the bracket watcher that reads both legs as FILLED tries
\* to cancel the stop-loss order only, never the take-profit order; the
\* cancel fails, the watcher stays OPEN and every later poll that reads the
\* two statuses issues the stop-loss cancel again, for as long as the
\* process runs.
C20_BothFilledCancelsStopLossForever == [][C20_Step]_vars

\* both legs FILLED, two polls have each issued the failing stop-loss
\* cancel, the watcher is still open
C20_Witness ==
    /\ strategy = "oco" /\ C20_BothFilled
    /\ book = <<"FILLED", "FILLED">>
    /\ Len(CallsOf("futures_cancel_order")) = 2
    /\ \A k \in 1..2 :
          /\ CallsOf("futures_cancel_order")[k].orderId = sl_order.orderId
          /\ ~CallsOf("futures_cancel_order")[k].ok
    /\ WatcherState = "OPEN" /\ polls >= 2

\* the placement attempts of the stop-limit watcher, in call order
C21_Attempts == CallsOf("futures_create_order")

\* the k-th exchange call is a placement attempt that raised
C21_FailedAttempt(k) == calls[k].op = "futures_create_order" /\ ~calls[k].ok

\* the k-th exchange call is a ticker reading that meets the stop condition
C21_TriggeringRead(k) ==
    calls[k].op = "futures_symbol_ticker" /\ calls[k].ok /\ Triggered(calls[k].price)

\* C21 as stated: in the live stop-limit watcher a placement that raises on a
\* triggering poll is swallowed like a failed query: nothing is raised to the
\* caller, the watcher waits one poll interval and keeps polling; every
\* placement attempt follows a ticker reading that meets the stop condition
\* and every such reading is followed by an attempt, so attempts can repeat;
\* at most one attempt succeeds, it is the last exchange call, and the call
\* returns exactly when it has succeeded, with that order.
C21_FailedPlacementRetried ==
    (strategy = "stop_limit" /\ LiveMode) =>
        /\ (\E k \in 1..Len(calls) : C21_FailedAttempt(k)) =>
              (pc # "raised" /\ exc = None)
        /\ \A k \in 1..Len(calls) :
              /\ calls[k].op = "futures_create_order" =>
                    (k > 1 /\ C21_TriggeringRead(k - 1) /\ calls[k].req = StopLimitReq)
              /\ C21_TriggeringRead(k) =>
                    (k < Len(calls) /\ calls[k + 1].op = "futures_create_order")
              /\ C21_FailedAttempt(k) =>
                    /\ pc \in {"poll", "returned"}
                    /\ k < Len(calls) => calls[k + 1].op = "futures_symbol_ticker"
                    /\ pc = "poll" => (ret = None /\ Len(sleeps) = polls)
              /\ (calls[k].op = "futures_create_order" /\ calls[k].ok) =>
                    (k = Len(calls) /\ pc = "returned")
        /\ Len(SelectSeq(C21_Attempts, LAMBDA c : c.ok)) <= 1
        /\ pc = "returned" =>
              /\ calls[Len(calls)].op = "futures_create_order" /\ calls[Len(calls)].ok
              /\ ret = [orderId |-> 1, status |-> "NEW", symbol |-> args.symbol,
                        side |-> args.side, type |-> "LIMIT",
                        origQty |-> Float(args.qty),
                        price |-> DecStr(args.limit_price), stopPrice |-> None]
              /\ book = <<"NEW">>
              /\ Len(sleeps) = polls - 1

\* C21 amended: a placement that raises on a triggering poll is swallowed
\* and followed by the wait of poll_interval. With poll_interval >= 0 the
\* watcher keeps polling: every placement attempt follows a ticker reading
\* that meets the stop condition and every such reading is followed by an
\* attempt, so attempts can repeat. With poll_interval < 0 the wait raises
\* ValueError and the call ends with it, nothing placed and nothing returned.
\* At most one attempt succeeds, it is the last exchange call, and the call
\* returns exactly when it has succeeded, with that order.
C21_FailedPlacementRetriedUnlessWaitRaises ==
    (strategy = "stop_limit" /\ LiveMode) =>
        /\ pc = "raised" =>
              /\ args.poll_interval < 0 /\ exc = "ValueError"
              /\ polls = 1 /\ sleeps = <<args.poll_interval>>
              /\ ret = None /\ book = <<>>
        /\ pc # "raised" => exc = None
        /\ \A k \in 1..Len(calls) :
              /\ calls[k].op = "futures_create_order" =>
                    (k > 1 /\ C21_TriggeringRead(k - 1) /\ calls[k].req = StopLimitReq)
              /\ C21_TriggeringRead(k) =>
                    (k < Len(calls) /\ calls[k + 1].op = "futures_create_order")
              /\ C21_FailedAttempt(k) =>
                    IF args.poll_interval >= 0
                    THEN /\ pc \in {"poll", "returned"}
                         /\ k < Len(calls) => calls[k + 1].op = "futures_symbol_ticker"
                         /\ pc = "poll" => (ret = None /\ Len(sleeps) = polls)
                    ELSE k = Len(calls) /\ pc = "raised"
              /\ (calls[k].op = "futures_create_order" /\ calls[k].ok) =>
                    (k = Len(calls) /\ pc = "returned")
        /\ Len(SelectSeq(C21_Attempts, LAMBDA c : c.ok)) <= 1
        /\ pc = "returned" =>
              /\ calls[Len(calls)].op = "futures_create_order" /\ calls[Len(calls)].ok
              /\ ret = [orderId |-> 1, status |-> "NEW", symbol |-> args.symbol,
                        side |-> args.side, type |-> "LIMIT",
                        origQty |-> Float(args.qty),
                        price |-> DecStr(args.limit_price), stopPrice |-> None]
              /\ book = <<"NEW">>
              /\ Len(sleeps) = polls - 1

\* two triggering polls whose placement raised, then a third whose placement
\* succeeded and was returned
C21_Witness ==
    /\ strategy = "stop_limit" /\ LiveMode /\ pc = "returned"
    /\ polls = 3 /\ Len(calls) = 6
    /\ C21_FailedAttempt(2) /\ C21_FailedAttempt(4)
    /\ calls[6].op = "futures_create_order" /\ calls[6].ok
    /\ Len(sleeps) = 2 /\ ret.orderId = 1

\* the k-th exchange call cancels the take-profit order
C22_CancelsTakeProfit(k) ==
    calls[k].op = "futures_cancel_order" /\ calls[k].orderId = tp_order.orderId

\* the k-th exchange call is a query of order id that answered
C22_Answered(k, id) ==
    calls[k].op = "futures_get_order" /\ calls[k].orderId = id /\ calls[k].ok

\* every take-profit query made so far has raised
C22_TakeProfitQueryKeepsFailing ==
    \A k \in 1..Len(calls) :
        (calls[k].op = "futures_get_order" /\ calls[k].orderId = tp_order.orderId)
            => ~calls[k].ok

\* C22: the bracket watcher cancels the take-profit order for a FILLED
\* stop-loss order only in a poll in which the take-profit query answered
\* with a status other than FILLED and the stop-loss query answered FILLED
\* right after it; as long as every take-profit query raises, no cancel is
\* issued and the watcher closes nothing, whatever the stop-loss order's state
\* on the exchange or the status the watcher read for it in an earlier poll.
C22_StopLossActedOnOnlyAfterTakeProfitAnswer ==
    (strategy = "oco" /\ wpc # "none") =>
        /\ \A k \in 1..Len(calls) :
              C22_CancelsTakeProfit(k) =>
                  /\ k > 2
                  /\ C22_Answered(k - 1, sl_order.orderId)
                  /\ calls[k - 1].status = "FILLED"
                  /\ C22_Answered(k - 2, tp_order.orderId)
                  /\ calls[k - 2].status # "FILLED"
        /\ wpc = "closed_sl" =>
              (C22_CancelsTakeProfit(Len(calls)) /\ calls[Len(calls)].ok)
        /\ C22_TakeProfitQueryKeepsFailing =>
              /\ CallsOf("futures_cancel_order") = <<>>
              /\ CallsOf("futures_get_order") =
                    [k \in 1..polls |-> [op |-> "futures_get_order",
                                         orderId |-> tp_order.orderId,
                                         status |-> None, ok |-> FALSE]]
              /\ wpc \notin {"closed_tp", "closed_sl"} /\ sl_status = None

\* the stop-loss order is FILLED on the exchange, three polls have each
\* failed on the take-profit query, the take-profit order is still open
C22_Witness ==
    /\ strategy = "oco" /\ wpc = "sleep" /\ polls = 3
    /\ book = <<"NEW", "FILLED">>
    /\ C22_TakeProfitQueryKeepsFailing
    /\ Len(CallsOf("futures_get_order")) = 3
    /\ CallsOf("futures_cancel_order") = <<>>

====
